---- MODULE Spec2Model ----
(***************************************************************************)
(* Device-scoped key interception and remapping engine of ez-keyremapper:  *)
(* core/key_interceptor.py (KeyInterceptor, its dispatch loop and the      *)
(* scan-code/VK translation) and core/key_sender.py (send_key_combo).      *)
(***************************************************************************)
EXTENDS Integers, Sequences, FiniteSets, TLC

(***************************************************************************)
(* Bounds of the model.                                                    *)
(***************************************************************************)
\* scan codes and VK codes are 0..MaxCode
MaxCode == 255

\* keyboards attached to the driver: device indices 1..NumDevices
NumDevices == 2
\* the opaque extraInfo payload of a stroke ranges over 0..MaxInfo
MaxInfo == 1
\* the state flags of a stroke range over 0..MaxState: key up (1) and E0 (2)
\* in every combination; E1 (4) from MaxState = 4 on
MaxState == 3
\* longest key list handed to send_key_combo in the sender specification
MaxComboLen == 3
\* events kept in the record of received strokes and outbound actions
MaxTrace == 4

(***************************************************************************)
(* Program constants.                                                      *)
(***************************************************************************)
INTERCEPTION_KEY_UP == 1
INTERCEPTION_KEY_E0 == 2
INTERCEPTION_KEY_E1 == 4

\* stroke.state & flag  (flag is a power of two)
HasFlag(state, flag) == (state \div flag) % 2 = 1

\* SCAN_TO_VK, in the order the dict literal lists its entries
SCAN_TO_VK ==
    << <<30, 65>>, <<48, 66>>, <<46, 67>>, <<32, 68>>, <<18, 69>>, <<33, 70>>,
       <<34, 71>>, <<35, 72>>, <<23, 73>>, <<36, 74>>, <<37, 75>>, <<38, 76>>,
       <<50, 77>>, <<49, 78>>, <<24, 79>>, <<25, 80>>, <<16, 81>>, <<19, 82>>,
       <<31, 83>>, <<20, 84>>, <<22, 85>>, <<47, 86>>, <<17, 87>>, <<45, 88>>,
       <<21, 89>>, <<44, 90>>, <<2, 49>>, <<3, 50>>, <<4, 51>>, <<5, 52>>,
       <<6, 53>>, <<7, 54>>, <<8, 55>>, <<9, 56>>, <<10, 57>>, <<11, 48>>,
       <<59, 112>>, <<60, 113>>, <<61, 114>>, <<62, 115>>, <<63, 116>>, <<64, 117>>,
       <<65, 118>>, <<66, 119>>, <<67, 120>>, <<68, 121>>, <<87, 122>>, <<88, 123>>,
       <<1, 27>>, <<14, 8>>, <<15, 9>>, <<28, 13>>, <<57, 32>>, <<42, 16>>,
       <<54, 16>>, <<29, 17>>, <<56, 18>>, <<58, 20>> >>

\* the extended_map literal of _scan_to_vk
EXTENDED_MAP ==
    << <<28, 13>>, <<29, 17>>, <<56, 18>>, <<71, 36>>, <<72, 38>>, <<73, 33>>,
       <<75, 37>>, <<77, 39>>, <<79, 35>>, <<80, 40>>, <<81, 34>>, <<82, 45>>,
       <<83, 46>> >>

\* dict.get(key, default) on a dict built from a sequence of <<key, value>>
\* pairs: a later pair with the same key overwrites an earlier one
DictGet(pairs, key, default) ==
    LET hits == {i \in 1..Len(pairs) : pairs[i][1] = key}
    IN  IF hits = {} THEN default
        ELSE pairs[CHOOSE i \in hits : \A j \in hits : j <= i][2]

\* VK_TO_SCAN = {v: k for k, v in SCAN_TO_VK.items()}
VK_TO_SCAN == [i \in 1..Len(SCAN_TO_VK) |-> <<SCAN_TO_VK[i][2], SCAN_TO_VK[i][1]>>]

\* mutant: an extended scan code missing from the extended table is looked
\* up in the base table
ScanToVk_BaseFallback(scan_code, extended) ==
    IF extended
    THEN DictGet(EXTENDED_MAP, scan_code, DictGet(SCAN_TO_VK, scan_code, scan_code))
    ELSE DictGet(SCAN_TO_VK, scan_code, scan_code)

\* KeyInterceptor._scan_to_vk
ScanToVk(scan_code, extended) ==
    IF extended THEN DictGet(EXTENDED_MAP, scan_code, scan_code)
    ELSE DictGet(SCAN_TO_VK, scan_code, scan_code)

\* KeyInterceptor._vk_to_scan
VkToScan(vk_code) == DictGet(VK_TO_SCAN, vk_code, vk_code)

(***************************************************************************)
(* core/key_sender.py                                                      *)
(***************************************************************************)
MODIFIER_KEYS == {16, 17, 18, 160, 161, 162, 163, 164, 165, 91, 92}

IsModifier(vk) == vk \in MODIFIER_KEYS
IsRegular(vk) == vk \notin MODIFIER_KEYS

Reversed(s) == [i \in 1..Len(s) |-> s[Len(s) + 1 - i]]

\* one injection attempt of send_key: the key and its direction
KeyInput(vk, key_up) == [vk |-> vk, key_up |-> key_up]

\* mutant: the modifiers are released in the order they were pressed
ComboAttempts_ReleaseInPressOrder(vk_codes) ==
    LET modifiers == SelectSeq(vk_codes, IsModifier)
        regular_keys == SelectSeq(vk_codes, IsRegular)
        downs == [i \in 1..Len(modifiers) |-> KeyInput(modifiers[i], FALSE)]
        presses == [i \in 1..(2 * Len(regular_keys)) |->
                       KeyInput(regular_keys[(i + 1) \div 2], i % 2 = 0)]
        ups == [i \in 1..Len(modifiers) |-> KeyInput(modifiers[i], TRUE)]
    IN  downs \o presses \o ups

\* the send_key calls send_key_combo makes for a non-empty list, in call order
ComboAttempts(vk_codes) ==
    LET modifiers == SelectSeq(vk_codes, IsModifier)
        regular_keys == SelectSeq(vk_codes, IsRegular)
        downs == [i \in 1..Len(modifiers) |-> KeyInput(modifiers[i], FALSE)]
        presses == [i \in 1..(2 * Len(regular_keys)) |->
                       KeyInput(regular_keys[(i + 1) \div 2], i % 2 = 0)]
        ups == [i \in 1..Len(modifiers) |-> KeyInput(Reversed(modifiers)[i], TRUE)]
    IN  downs \o presses \o ups

\* mutant: the combo is abandoned at the first send_key that fails
SendKeyCombo_AbortOnFail(vk_codes, fails) ==
    IF vk_codes = <<>> THEN [events |-> <<>>, ok |-> FALSE]
    ELSE LET attempts == ComboAttempts(vk_codes)
             bad == {i \in 1..Len(attempts) : i \in fails}
             first == IF bad = {} THEN Len(attempts)
                      ELSE CHOOSE i \in bad : \A j \in bad : i <= j
         IN  [events |-> SubSeq(attempts, 1, first), ok |-> bad = {}]

\* send_key_combo(vk_codes); fails is the set of call positions at which
\* send_key returns False (SendInput injected nothing)
SendKeyCombo(vk_codes, fails) ==
    IF vk_codes = <<>> THEN [events |-> <<>>, ok |-> FALSE]
    ELSE LET attempts == ComboAttempts(vk_codes)
         IN  [events |-> attempts,
              ok |-> \A i \in 1..Len(attempts) : i \notin fails]

(***************************************************************************)
(* The driver as the engine sees it.  is_keyboard is a test of the index   *)
(* alone; a slot with no attached keyboard reports an empty hardware id.   *)
(***************************************************************************)
INTERCEPTION_MAX_KEYBOARD == 10

Devices == 1..NumDevices

\* InterceptionDriver.is_keyboard
DriverIsKeyboard(d) == d \in 1..INTERCEPTION_MAX_KEYBOARD

\* what is plugged into each device slot: its hardware id, "" (here <<>>)
\* for an empty slot
VARIABLE hardware

\* the slots of the keyboards 1..NumDevices filled, each with its own id
AllAttached ==
    [d \in 1..INTERCEPTION_MAX_KEYBOARD |->
        IF d \in Devices THEN <<"HID", d>> ELSE <<>>]

\* InterceptionDriver.get_hardware_id
DriverGetHardwareId(d) == IF d \in DOMAIN hardware THEN hardware[d] ELSE <<>>

\* KeyboardDevice
KeyboardDevice(d, hw) == [device_number |-> d, hardware_id |-> hw]

\* mutant: the slots with an empty hardware id are listed too
IsConnectedKeyboard_AnySlot(d) == DriverIsKeyboard(d)

IsConnectedKeyboard(d) == DriverIsKeyboard(d) /\ DriverGetHardwareId(d) # <<>>

\* KeyInterceptor._enumerate_keyboards: the list it leaves in self._keyboards
EnumerateKeyboards ==
    LET found == SelectSeq([d \in 1..INTERCEPTION_MAX_KEYBOARD |-> d],
                           IsConnectedKeyboard)
    IN  [i \in 1..Len(found) |-> KeyboardDevice(found[i], DriverGetHardwareId(found[i]))]

\* InterceptionKeyStroke
Stroke(code, state, information) ==
    [code |-> code, state |-> state, information |-> information]

\* scan codes the modelled keyboards produce: 29 (Left Ctrl, and Right Ctrl
\* when extended: VK 17 either way) and 59 (F1 when not extended)
ScanCodes == {29, 59}
StateFlags == 0..MaxState
Strokes == {Stroke(c, f, x) : c \in ScanCodes, f \in StateFlags, x \in 0..MaxInfo}
NoStroke == Stroke(0, 0, 0)

\* values of self._mappings: an int (single key) or a list (combo)
Single(vk) == [is_list |-> FALSE, vk |-> vk, keys |-> <<>>]
Combo(keys) == [is_list |-> TRUE, vk |-> 0, keys |-> keys]
NoOutput == Single(0)

\* input key and outputs the caller configures in the model: Ctrl as the
\* input; F2 (in VK_TO_SCAN), Home (not in VK_TO_SCAN), LCtrl+LShift+V and
\* an empty list as outputs
InputVks == {17}
OutputActions == {Single(113), Single(36), Combo(<<162, 160, 86>>), Combo(<<>>)}
MappingTables == UNION {[S -> OutputActions] : S \in SUBSET InputVks}
Callbacks == {"cb1"}

\* mutant: an existing entry is kept (dict.setdefault)
DictSet_KeepExisting(m, k, v) ==
    [x \in (DOMAIN m) \cup {k} |-> IF x \in DOMAIN m THEN m[x] ELSE v]

\* dict operations on self._mappings
DictSet(m, k, v) == [x \in (DOMAIN m) \cup {k} |-> IF x = k THEN v ELSE m[x]]
DictPop(m, k) == [x \in (DOMAIN m) \ {k} |-> m[x]]
EmptyDict == [x \in {} |-> NoOutput]

VARIABLES
    \* KeyInterceptor fields
    driver,          \* "none" | "open"            self._driver
    running,         \* self._running
    thread,          \* "none" | "set"             self._thread
    target_device,   \* 0 for None, else a device  self._target_device
    mappings,        \* self._mappings
    on_key_event,    \* "none" or a callback       self._on_key_event
    enabled,         \* self._enabled
    keyboards,       \* self._keyboards
    \* the caller thread's position inside stop()
    stop_pc,
    \* the dispatch thread: position and locals of _intercept_loop
    pc, device, got, stroke, vk_code, hw_id, should_remap, output,
    \* what the current loop iteration has done so far
    observed,        \* observer invocations: <<[cb, event]>>
    sent,            \* driver.send calls: <<[device, stroke]>>
    synth,           \* send_key_combo calls: the lists passed
    injected,        \* send_key calls made by those
    synth_ok,        \* what the last send_key_combo call returned
    branch,          \* "none" | "pass" | "single" | "combo"
    received,        \* driver.receive calls: the devices asked
    \* the strokes received and the outbound actions taken, in the order
    \* they happened, over the iterations (where they are recorded)
    trace,
    cfg_touched,     \* a caller changed the configuration since the receive
    \* the sender specification: one call of send_key_combo
    combo_pc, combo_arg, combo_fails, combo_res,
    \* the translation specification: one call of _scan_to_vk or _vk_to_scan
    xlat,
    \* a dispatch thread that outlived the join of stop() and was left behind
    \* by the start() that followed: "none" or its position
    orphan,
    \* the capture or detect dialog of the GUI
    dialog,
    \* the last call the caller thread made: [op, key, out], the op of the
    \* call before it and a bit that flips at every call; op is "off" where
    \* calls are not recorded
    last_call

engineVars == <<driver, running, thread, keyboards>>
configVars == <<target_device, mappings, on_key_event, enabled>>
localVars == <<device, got, stroke, vk_code, hw_id, should_remap, output>>
logVars == <<observed, sent, synth, injected, synth_ok, branch, received, trace>>
senderVars == <<combo_pc, combo_arg, combo_fails, combo_res>>
outsideVars == <<senderVars, hardware, xlat, orphan, dialog>>
progVars == <<engineVars, configVars, stop_pc, pc, localVars, logVars,
              cfg_touched, outsideVars>>
vars == <<progVars, last_call>>

\* the events of the trace
RecvEvent(d, s) == [kind |-> "recv", device |-> d, stroke |-> s, keys |-> <<>>]
SendEvent(d, s) == [kind |-> "send", device |-> d, stroke |-> s, keys |-> <<>>]
ComboEvent(d, keys) == [kind |-> "combo", device |-> d, stroke |-> NoStroke, keys |-> keys]

\* the trace where nothing is recorded, and the empty trace where events are
TraceOff == [on |-> FALSE, events |-> <<>>]
NoTrace == [on |-> TRUE, events |-> <<>>]

\* bookkeeping: an event of the dispatch thread, where events are recorded
\* (the first MaxTrace of them)
Logged(e) ==
    trace' = IF trace.on /\ Len(trace.events) < MaxTrace
             THEN [trace EXCEPT !.events = Append(@, e)]
             ELSE trace

NoComboRes == [events |-> <<>>, ok |-> FALSE]

\* KeyInterceptor.__init__
EngineInit ==
    /\ driver = "none" /\ running = FALSE /\ thread = "none"
    /\ target_device = 0 /\ mappings = EmptyDict /\ on_key_event = "none"
    /\ enabled = TRUE /\ keyboards = <<>>
    /\ stop_pc = "idle" /\ pc = "none"
    /\ device = 0 /\ got = FALSE /\ stroke = NoStroke /\ vk_code = 0
    /\ hw_id = <<>> /\ should_remap = FALSE /\ output = NoOutput
    /\ observed = <<>> /\ sent = <<>> /\ synth = <<>> /\ injected = <<>>
    /\ synth_ok = TRUE /\ branch = "none" /\ cfg_touched = FALSE
    /\ received = <<>> /\ trace = TraceOff

SenderIdle ==
    /\ combo_pc = "idle" /\ combo_arg = <<>> /\ combo_fails = {}
    /\ combo_res = NoComboRes

Call(op, key, out, table, prev, seq) ==
    [op |-> op, key |-> key, out |-> out, table |-> table, prev |-> prev,
     seq |-> seq]
CallsOff == Call("off", 0, NoOutput, EmptyDict, "off", 0)
NoCall == Call("none", 0, NoOutput, EmptyDict, "none", 0)

\* no translation call under way
NoXlat == [pc |-> "idle", scan |-> 0, state |-> 0, vk |-> 0, back |-> 0]

\* no dialog has been constructed
NoDialog ==
    [kind |-> "none", pc |-> "none", phase |-> 0, input_vk |-> 0,
     output_keys |-> <<>>, detected_device |-> 0,
     target_device |-> 0, confirm |-> FALSE,
     prev_callback |-> "none", prev_enabled |-> FALSE, ended_by |-> "none"]

\* nothing outside the engine and its one dispatch thread is under way
NoOutsiders == orphan = "none" /\ dialog = NoDialog

OutsideIdle == SenderIdle /\ hardware = AllAttached /\ xlat = NoXlat /\ NoOutsiders

Init == EngineInit /\ OutsideIdle /\ last_call = CallsOff

(***************************************************************************)
(* Caller-thread operations.  The caller thread is inside at most one of   *)
(* them at a time: none starts while stop() is waiting in join.            *)
(***************************************************************************)
CallerFree == stop_pc = "idle"

ThreadAlive == pc \notin {"none", "done", "dead"}

\* bookkeeping: the configuration changed while a received stroke is being
\* (or has just been) processed
Touch == cfg_touched' = (cfg_touched \/ (got /\ configVars' # configVars))

CallerFrame == UNCHANGED <<stop_pc, pc, localVars, logVars, outsideVars>>

\* bookkeeping: the call just made, where calls are recorded
CalledWith(op, key, out, table) ==
    last_call' = IF last_call.op = "off" THEN last_call
                 ELSE Call(op, key, out, table, last_call.op, 1 - last_call.seq)

Called(op, key, out) == CalledWith(op, key, out, EmptyDict)

\* KeyInterceptor.set_target_device
SetTargetDevice(d) ==
    /\ CallerFree
    /\ target_device' = d
    /\ UNCHANGED <<engineVars, mappings, on_key_event, enabled>>
    /\ CallerFrame /\ Touch
    /\ Called("set_target_device", d, NoOutput)

\* mutant: the target is left as it was when no device matches
FindByHardwareId_KeepsOld(kbs, hardware_id) ==
    LET hits == {i \in 1..Len(kbs) : kbs[i].hardware_id = hardware_id}
    IN  IF hits = {} THEN target_device
        ELSE kbs[CHOOSE i \in hits : \A j \in hits : i <= j].device_number

\* the value set_target_device_by_hardware_id leaves in self._target_device
FindByHardwareId(kbs, hardware_id) ==
    LET hits == {i \in 1..Len(kbs) : kbs[i].hardware_id = hardware_id}
    IN  IF hits = {} THEN 0
        ELSE kbs[CHOOSE i \in hits : \A j \in hits : i <= j].device_number

\* KeyInterceptor.set_target_device_by_hardware_id, _init_driver succeeding
\* (or the driver being there already)
SetTargetDeviceByHardwareId(hardware_id) ==
    /\ CallerFree
    /\ IF driver = "none"
       THEN driver' = "open" /\ keyboards' = EnumerateKeyboards
       ELSE UNCHANGED <<driver, keyboards>>
    /\ target_device' = FindByHardwareId(keyboards', hardware_id)
    /\ UNCHANGED <<running, thread, mappings, on_key_event, enabled>>
    /\ CallerFrame /\ Touch
    /\ Called("set_target_device_by_hardware_id", hardware_id[2], NoOutput)

\* KeyInterceptor.get_keyboards, _init_driver succeeding
GetKeyboards ==
    /\ CallerFree
    /\ driver' = "open"
    /\ keyboards' = EnumerateKeyboards
    /\ UNCHANGED <<running, thread, configVars, cfg_touched>>
    /\ CallerFrame
    /\ Called("get_keyboards", 0, NoOutput)

\* InterceptionDriver() raising inside _init_driver (DLL or context missing):
\* the exception leaves get_keyboards and set_target_device_by_hardware_id
\* before they assign anything
InitDriverFails(caller) ==
    /\ CallerFree
    /\ driver = "none"
    /\ UNCHANGED progVars
    /\ Called(IF caller = "get_keyboards" THEN "get_keyboards_raised"
              ELSE "set_target_device_by_hardware_id_raised", 0, NoOutput)

\* the methods other than start() that call _init_driver
InitDriverCallers == {"get_keyboards", "set_target_device_by_hardware_id"}

\* mutant: set_mappings merges into the table (dict.update)
SetMappings_Merge(m) ==
    /\ CallerFree
    /\ mappings' = [x \in (DOMAIN mappings) \cup (DOMAIN m) |->
                        IF x \in DOMAIN m THEN m[x] ELSE mappings[x]]
    /\ UNCHANGED <<engineVars, target_device, on_key_event, enabled>>
    /\ CallerFrame /\ Touch
    /\ CalledWith("set_mappings", 0, NoOutput, m)

\* KeyInterceptor.set_mappings
SetMappings(m) ==
    /\ CallerFree
    /\ mappings' = m
    /\ UNCHANGED <<engineVars, target_device, on_key_event, enabled>>
    /\ CallerFrame /\ Touch
    /\ CalledWith("set_mappings", 0, NoOutput, m)

\* KeyInterceptor.add_mapping
AddMapping(input_vk, out) ==
    /\ CallerFree
    /\ mappings' = DictSet(mappings, input_vk, out)
    /\ UNCHANGED <<engineVars, target_device, on_key_event, enabled>>
    /\ CallerFrame /\ Touch
    /\ Called("add_mapping", input_vk, out)

\* KeyInterceptor.remove_mapping
RemoveMapping(input_vk) ==
    /\ CallerFree
    /\ mappings' = DictPop(mappings, input_vk)
    /\ UNCHANGED <<engineVars, target_device, on_key_event, enabled>>
    /\ CallerFrame /\ Touch
    /\ Called("remove_mapping", input_vk, NoOutput)

\* KeyInterceptor.clear_mappings
ClearMappings ==
    /\ CallerFree
    /\ mappings' = EmptyDict
    /\ UNCHANGED <<engineVars, target_device, on_key_event, enabled>>
    /\ CallerFrame /\ Touch
    /\ Called("clear_mappings", 0, NoOutput)

\* mutant: disabling also forgets the target device
SetEnabled_DropsTarget(b) ==
    /\ CallerFree
    /\ enabled' = b
    /\ target_device' = IF b THEN target_device ELSE 0
    /\ UNCHANGED <<engineVars, mappings, on_key_event>>
    /\ CallerFrame /\ Touch
    /\ Called("set_enabled", IF b THEN 1 ELSE 0, NoOutput)

\* KeyInterceptor.set_enabled
SetEnabled(b) ==
    /\ CallerFree
    /\ enabled' = b
    /\ UNCHANGED <<engineVars, target_device, mappings, on_key_event>>
    /\ CallerFrame /\ Touch
    /\ Called("set_enabled", IF b THEN 1 ELSE 0, NoOutput)

\* KeyInterceptor.set_key_event_callback
SetKeyEventCallback(cb) ==
    /\ CallerFree
    /\ on_key_event' = cb
    /\ UNCHANGED <<engineVars, target_device, mappings, enabled>>
    /\ CallerFrame /\ Touch
    /\ Called("set_key_event_callback", IF cb = "none" THEN 0 ELSE 1, NoOutput)

\* locals and per-iteration record of a dispatch thread that holds no stroke
ClearIteration ==
    /\ device' = 0 /\ got' = FALSE /\ stroke' = NoStroke /\ vk_code' = 0
    /\ hw_id' = <<>> /\ should_remap' = FALSE /\ output' = NoOutput
    /\ observed' = <<>> /\ sent' = <<>> /\ synth' = <<>> /\ injected' = <<>>
    /\ synth_ok' = TRUE /\ branch' = "none" /\ cfg_touched' = FALSE
    /\ received' = <<>> /\ UNCHANGED trace

\* mutant: start() spawns a dispatch thread although the engine is running
StartWhileRunning_Respawn ==
    /\ CallerFree
    /\ running
    /\ thread' = "set"
    /\ pc' = "filter"
    /\ ClearIteration
    /\ UNCHANGED <<driver, running, keyboards, configVars, stop_pc, outsideVars>>
    /\ Called("start", 0, NoOutput)

\* KeyInterceptor.start while already running: returns at once
StartWhileRunning ==
    /\ CallerFree
    /\ running
    /\ UNCHANGED progVars
    /\ Called("start", 0, NoOutput)

\* mutant: start() sets the run flag before it opens the driver
StartRaises_FlagFirst ==
    /\ CallerFree
    /\ ~running
    /\ driver = "none"
    /\ running' = TRUE
    /\ UNCHANGED <<driver, thread, keyboards, configVars, stop_pc, pc, localVars,
                   logVars, cfg_touched, outsideVars>>
    /\ Called("start_raised", 0, NoOutput)

\* KeyInterceptor.start on an engine that is not running, InterceptionDriver()
\* raising inside _init_driver: the RuntimeError leaves start before
\* self._driver, self._running or self._thread is assigned
StartRaises ==
    /\ CallerFree
    /\ ~running
    /\ driver = "none"
    /\ UNCHANGED progVars
    /\ Called("start_raised", 0, NoOutput)

\* KeyInterceptor.start on an engine that is not running, _init_driver
\* succeeding.  The model follows one dispatch thread: a start() while the
\* thread of an earlier start() is still alive is not explored.
Start ==
    /\ CallerFree
    /\ ~running
    /\ ~ThreadAlive
    /\ IF driver = "none"
       THEN driver' = "open" /\ keyboards' = EnumerateKeyboards
       ELSE UNCHANGED <<driver, keyboards>>
    /\ running' = TRUE
    /\ thread' = "set"
    /\ pc' = "filter"
    /\ ClearIteration
    /\ UNCHANGED <<configVars, stop_pc, outsideVars>>
    /\ Called("start", 0, NoOutput)

\* mutant: stop() without its guard releases the driver of an idle engine
StopWhileIdle_Releases ==
    /\ CallerFree
    /\ ~running
    /\ driver' = "none"
    /\ thread' = "none"
    /\ UNCHANGED <<running, keyboards, configVars, stop_pc, pc, localVars,
                   logVars, cfg_touched, outsideVars>>
    /\ Called("stop", 0, NoOutput)

\* KeyInterceptor.stop on an engine that is not running: returns at once
StopWhileIdle ==
    /\ CallerFree
    /\ ~running
    /\ UNCHANGED progVars
    /\ Called("stop", 0, NoOutput)

\* KeyInterceptor.stop: clears the run flag, then joins
StopBegin ==
    /\ CallerFree
    /\ running
    /\ running' = FALSE
    /\ stop_pc' = IF thread # "none" THEN "join" ELSE "destroy"
    /\ UNCHANGED <<driver, thread, keyboards, configVars, pc, localVars, logVars,
                   cfg_touched, outsideVars>>
    /\ Called("stop_entered", 0, NoOutput)

\* thread.join(timeout=2.0) returns: the thread has ended, or the two
\* seconds have passed with the thread still inside the one call of an
\* iteration that can take that long, the observer (a wait lasts 100 ms)
StopJoin ==
    /\ stop_pc = "join"
    /\ pc \in {"done", "dead", "cbcall"}
    /\ thread' = "none"
    /\ stop_pc' = "destroy"
    /\ UNCHANGED <<driver, running, keyboards, configVars, pc, localVars, logVars,
                   cfg_touched, outsideVars, last_call>>

\* mutant: stop() also forgets the target device
StopDestroy_ForgetsTarget ==
    /\ stop_pc = "destroy"
    /\ driver' = "none"
    /\ target_device' = 0
    /\ stop_pc' = "idle"
    /\ UNCHANGED <<running, thread, keyboards, mappings, on_key_event, enabled,
                   pc, localVars, logVars, cfg_touched, outsideVars>>
    /\ Called("stop", 0, NoOutput)

\* the rest of stop(): InterceptionDriver.destroy and self._driver = None
StopDestroy ==
    /\ stop_pc = "destroy"
    /\ driver' = "none"
    /\ stop_pc' = "idle"
    /\ UNCHANGED <<running, thread, keyboards, configVars, pc, localVars, logVars,
                   cfg_touched, outsideVars>>
    /\ Called("stop", 0, NoOutput)

(***************************************************************************)
(* The dispatch thread: KeyInterceptor._intercept_loop, one action per     *)
(* read of a field the caller thread may write and per driver call.        *)
(***************************************************************************)
LoopFrame == UNCHANGED <<engineVars, configVars, stop_pc, outsideVars, last_call>>

\* an uncaught exception ends the thread where it stands
Raise == pc' = "dead"

IsKeyUp(s) == HasFlag(s.state, INTERCEPTION_KEY_UP)
IsExtended(s) == HasFlag(s.state, INTERCEPTION_KEY_E0)

\* the scan-code resolution of the loop
ResolveVk(s) == ScanToVk(s.code, IsExtended(s))

\* the hardware id the loop finds for a device in self._keyboards
HardwareIdOf(kbs, d) ==
    LET hits == {i \in 1..Len(kbs) : kbs[i].device_number = d}
    IN  IF hits = {} THEN <<>>
        ELSE kbs[CHOOSE i \in hits : \A j \in hits : i <= j].hardware_id

\* mutant: the event carries the VK code in place of the scan code
KeyEvent_VkForScan(scan_code, vk, is_key_up, dev, hw) ==
    [scan_code |-> vk, vk_code |-> vk, is_key_up |-> is_key_up,
     device |-> dev, hardware_id |-> hw]

\* KeyEvent
KeyEvent(scan_code, vk, is_key_up, dev, hw) ==
    [scan_code |-> scan_code, vk_code |-> vk, is_key_up |-> is_key_up,
     device |-> dev, hardware_id |-> hw]

\* mutant: the observer is told only while remapping is enabled
CallbackSet_WhenEnabled(cb) == cb # "none" /\ enabled

\* `if self._on_key_event:`
CallbackSet(cb) == cb # "none"

\* mutant: the new stroke carries the up/down bit alone
RemappedStroke_DropFlags(s, out) ==
    Stroke(VkToScan(out.vk), IF IsKeyUp(s) THEN INTERCEPTION_KEY_UP ELSE 0,
           s.information)

\* the stroke the single-key branch builds
RemappedStroke(s, out) == Stroke(VkToScan(out.vk), s.state, s.information)

\* mutant: the stroke is rebuilt without its extraInfo
PassedStroke_DropInfo(s) == Stroke(s.code, s.state, 0)

\* the stroke the pass-through branch sends
PassedStroke(s) == s

\* mutant: the combo fires on key up as well
ComboTriggers_Always(s) == TRUE

\* `if not is_key_up:` of the combo branch
ComboTriggers(s) == ~IsKeyUp(s)

\* mutant: the stroke goes out on the target device
Sending_OnTarget(dev, s) ==
    [device |-> IF target_device # 0 THEN target_device ELSE dev, stroke |-> s]

\* one driver.send call
Sending(dev, s) == [device |-> dev, stroke |-> s]

\* self._driver.set_keyboard_filter(INTERCEPTION_FILTER_KEY_ALL)
LoopSetFilter ==
    /\ pc = "filter"
    /\ IF driver = "none" THEN Raise ELSE pc' = "top"
    /\ UNCHANGED <<localVars, logVars, cfg_touched>>
    /\ LoopFrame

\* mutant: the loop condition is not re-evaluated
LoopTop_IgnoresFlag ==
    /\ pc = "top"
    /\ pc' = "wait"
    /\ ClearIteration
    /\ LoopFrame

\* `while self._running:` a new iteration begins, or the loop ends
LoopTop ==
    /\ pc = "top"
    /\ pc' = IF running THEN "wait" ELSE "done"
    /\ ClearIteration
    /\ LoopFrame

\* device = self._driver.wait(timeout_ms=100); 0 is the timeout
LoopWait ==
    /\ pc = "wait"
    /\ IF driver = "none"
       THEN Raise /\ UNCHANGED device
       ELSE \E d \in 0..NumDevices :
                /\ device' = d
                /\ pc' = IF d = 0 THEN "top" ELSE "recv"
    /\ UNCHANGED <<got, stroke, vk_code, hw_id, should_remap, output, logVars,
                   cfg_touched>>
    /\ LoopFrame

\* mutant: an iteration whose receive yielded nothing goes on to the
\* observer and the send
LoopReceiveNone_GoesOn ==
    /\ pc = "recv"
    /\ driver # "none"
    /\ received' = Append(received, device)
    /\ pc' = "hwid"
    /\ UNCHANGED <<localVars, observed, sent, synth, injected, synth_ok, branch,
                   trace, cfg_touched>>
    /\ LoopFrame

\* stroke = self._driver.receive(device) yielding nothing
LoopReceiveNone ==
    /\ pc = "recv"
    /\ driver # "none"
    /\ received' = Append(received, device)
    /\ pc' = "top"
    /\ UNCHANGED <<localVars, observed, sent, synth, injected, synth_ok, branch,
                   trace, cfg_touched>>
    /\ LoopFrame

\* stroke = self._driver.receive(device) yielding a stroke, and the locals
\* computed from it
LoopReceive ==
    /\ pc = "recv"
    /\ IF driver = "none"
       THEN Raise /\ UNCHANGED <<got, stroke, vk_code, received, trace>>
       ELSE \E s \in Strokes :
                /\ received' = Append(received, device)
                /\ got' = TRUE
                /\ stroke' = s
                /\ vk_code' = ResolveVk(s)
                /\ pc' = "hwid"
                /\ Logged(RecvEvent(device, s))
    /\ UNCHANGED <<device, hw_id, should_remap, output, observed, sent, synth,
                   injected, synth_ok, branch, cfg_touched>>
    /\ LoopFrame

\* `for kb in self._keyboards:` the hardware id of the device
LoopHardwareId ==
    /\ pc = "hwid"
    /\ hw_id' = HardwareIdOf(keyboards, device)
    /\ pc' = "cbtest"
    /\ UNCHANGED <<device, got, stroke, vk_code, should_remap, output, logVars,
                   cfg_touched>>
    /\ LoopFrame

\* mutant: the remap decision is taken before the observer is called
LoopCallbackTest_DecidesFirst ==
    /\ pc = "cbtest"
    /\ should_remap' = (/\ enabled /\ vk_code \in DOMAIN mappings
                        /\ (target_device = 0 \/ device = target_device))
    /\ output' = IF should_remap' THEN mappings[vk_code] ELSE output
    /\ pc' = IF CallbackSet(on_key_event) THEN "cbcall" ELSE "chk_enabled"
    /\ UNCHANGED <<device, got, stroke, vk_code, hw_id, logVars, cfg_touched>>
    /\ LoopFrame

\* `if self._on_key_event:`
LoopCallbackTest ==
    /\ pc = "cbtest"
    /\ pc' = IF CallbackSet(on_key_event) THEN "cbcall" ELSE "chk_enabled"
    /\ UNCHANGED <<localVars, logVars, cfg_touched>>
    /\ LoopFrame

\* `self._on_key_event(event)`: the field is read again; calling None is a
\* TypeError; the callback returns or raises
LoopCallbackCall ==
    /\ pc = "cbcall"
    /\ IF on_key_event = "none"
       THEN Raise /\ UNCHANGED observed
       ELSE /\ observed' = Append(observed,
                   [cb |-> on_key_event,
                    event |-> KeyEvent(stroke.code, vk_code, IsKeyUp(stroke),
                                       device, hw_id)])
            /\ \E raises \in BOOLEAN :
                   pc' = IF raises THEN "dead" ELSE "chk_enabled"
    /\ UNCHANGED <<localVars, sent, synth, injected, synth_ok, branch, received,
                   trace, cfg_touched>>
    /\ LoopFrame

\* mutant: the enabled flag is not consulted
LoopCheckEnabled_Skipped ==
    /\ pc = "chk_enabled"
    /\ pc' = "chk_in"
    /\ UNCHANGED <<localVars, logVars, cfg_touched>>
    /\ LoopFrame

\* `if self._enabled and ...`
LoopCheckEnabled ==
    /\ pc = "chk_enabled"
    /\ pc' = IF enabled THEN "chk_in" ELSE "act"
    /\ UNCHANGED <<localVars, logVars, cfg_touched>>
    /\ LoopFrame

\* `... and vk_code in self._mappings:`
LoopCheckMapped ==
    /\ pc = "chk_in"
    /\ pc' = IF vk_code \in DOMAIN mappings THEN "chk_target" ELSE "act"
    /\ UNCHANGED <<localVars, logVars, cfg_touched>>
    /\ LoopFrame

\* `if self._target_device is None or ...`
LoopCheckTargetNone ==
    /\ pc = "chk_target"
    /\ IF target_device = 0
       THEN should_remap' = TRUE /\ pc' = "lookup"
       ELSE should_remap' = FALSE /\ pc' = "chk_target2"
    /\ UNCHANGED <<device, got, stroke, vk_code, hw_id, output, logVars,
                   cfg_touched>>
    /\ LoopFrame

\* `... or device == self._target_device:` (None equals no device)
LoopCheckTargetMatch ==
    /\ pc = "chk_target2"
    /\ should_remap' = (device = target_device)
    /\ pc' = IF device = target_device THEN "lookup" ELSE "act"
    /\ UNCHANGED <<device, got, stroke, vk_code, hw_id, output, logVars,
                   cfg_touched>>
    /\ LoopFrame

\* `output = self._mappings[vk_code]`: KeyError when the entry is gone
LoopLookup ==
    /\ pc = "lookup"
    /\ IF vk_code \in DOMAIN mappings
       THEN output' = mappings[vk_code] /\ pc' = "act"
       ELSE Raise /\ UNCHANGED output
    /\ UNCHANGED <<device, got, stroke, vk_code, hw_id, should_remap, logVars,
                   cfg_touched>>
    /\ LoopFrame

\* mutant: the key up of a combo key is passed on to the driver
LoopActCombo_ForwardsUp ==
    /\ pc = "act"
    /\ should_remap
    /\ output.is_list
    /\ IF ComboTriggers(stroke)
       THEN /\ \E fails \in SUBSET (1..(2 * Len(output.keys))) :
                  /\ synth' = Append(synth, output.keys)
                  /\ injected' = injected \o SendKeyCombo(output.keys, fails).events
                  /\ synth_ok' = SendKeyCombo(output.keys, fails).ok
            /\ Logged(ComboEvent(device, output.keys))
            /\ UNCHANGED sent
       ELSE /\ sent' = Append(sent, Sending(device, stroke))
            /\ Logged(SendEvent(device, stroke))
            /\ UNCHANGED <<synth, injected, synth_ok>>
    /\ branch' = "combo"
    /\ pc' = "top"
    /\ UNCHANGED <<localVars, observed, received, cfg_touched>>
    /\ LoopFrame

\* combo branch: send_key_combo on key down, nothing on key up; the
\* original stroke is not sent
LoopActCombo ==
    /\ pc = "act"
    /\ should_remap
    /\ output.is_list
    /\ IF ComboTriggers(stroke)
       THEN \E fails \in SUBSET (1..(2 * Len(output.keys))) :
                /\ synth' = Append(synth, output.keys)
                /\ injected' = injected \o SendKeyCombo(output.keys, fails).events
                /\ synth_ok' = SendKeyCombo(output.keys, fails).ok
                /\ Logged(ComboEvent(device, output.keys))
       ELSE UNCHANGED <<synth, injected, synth_ok, trace>>
    /\ branch' = "combo"
    /\ pc' = "top"
    /\ UNCHANGED <<localVars, observed, sent, received, cfg_touched>>
    /\ LoopFrame

\* mutant: the single-key branch falls through to the pass-through send
LoopActSingle_FallsThrough ==
    /\ pc = "act"
    /\ should_remap
    /\ ~output.is_list
    /\ IF driver = "none"
       THEN Raise /\ UNCHANGED <<sent, branch, trace, should_remap>>
       ELSE /\ sent' = Append(sent, Sending(device, RemappedStroke(stroke, output)))
            /\ Logged(SendEvent(device, RemappedStroke(stroke, output)))
            /\ branch' = "single"
            /\ should_remap' = FALSE
            /\ pc' = "act"
    /\ UNCHANGED <<device, got, stroke, vk_code, hw_id, output, observed, synth,
                   injected, synth_ok, received, cfg_touched>>
    /\ LoopFrame

\* single-key branch: one transformed stroke to the same device
LoopActSingle ==
    /\ pc = "act"
    /\ should_remap
    /\ ~output.is_list
    /\ IF driver = "none"
       THEN Raise /\ UNCHANGED <<sent, branch, trace>>
       ELSE /\ sent' = Append(sent, Sending(device, RemappedStroke(stroke, output)))
            /\ Logged(SendEvent(device, RemappedStroke(stroke, output)))
            /\ branch' = "single"
            /\ pc' = "top"
    /\ UNCHANGED <<localVars, observed, synth, injected, synth_ok, received,
                   cfg_touched>>
    /\ LoopFrame

\* pass-through branch: the original stroke to the same device
LoopActPass ==
    /\ pc = "act"
    /\ ~should_remap
    /\ IF driver = "none"
       THEN Raise /\ UNCHANGED <<sent, branch, trace>>
       ELSE /\ sent' = Append(sent, Sending(device, PassedStroke(stroke)))
            /\ Logged(SendEvent(device, PassedStroke(stroke)))
            /\ branch' = "pass"
            /\ pc' = "top"
    /\ UNCHANGED <<localVars, observed, synth, injected, synth_ok, received,
                   cfg_touched>>
    /\ LoopFrame

Loop ==
    \/ LoopSetFilter \/ LoopTop \/ LoopWait \/ LoopReceiveNone \/ LoopReceive
    \/ LoopHardwareId \/ LoopCallbackTest \/ LoopCallbackCall
    \/ LoopCheckEnabled \/ LoopCheckMapped \/ LoopCheckTargetNone
    \/ LoopCheckTargetMatch \/ LoopLookup
    \/ LoopActCombo \/ LoopActSingle \/ LoopActPass

Caller ==
    \/ \E d \in 0..NumDevices : SetTargetDevice(d)
    \/ \E d \in 1..(NumDevices + 1) : SetTargetDeviceByHardwareId(<<"HID", d>>)
    \/ GetKeyboards
    \/ \E caller \in InitDriverCallers : InitDriverFails(caller)
    \/ \E m \in MappingTables : SetMappings(m)
    \/ \E k \in InputVks, out \in OutputActions : AddMapping(k, out)
    \/ \E k \in InputVks : RemoveMapping(k)
    \/ ClearMappings
    \/ \E b \in BOOLEAN : SetEnabled(b)
    \/ \E cb \in Callbacks \cup {"none"} : SetKeyEventCallback(cb)
    \/ StartWhileRunning \/ StartRaises \/ Start
    \/ StopWhileIdle \/ StopBegin \/ StopJoin \/ StopDestroy

Next == Caller \/ Loop

Spec == Init /\ [][Next]_vars

(***************************************************************************)
(* The sender specification: send_key_combo on every key list of up to     *)
(* MaxComboLen keys, with every pattern of failing injections.  A running  *)
(* engine has the Ctrl key mapped to the list; either the list is handed   *)
(* to send_key_combo directly while the loop waits, or the loop has        *)
(* decided to remap a stroke of the Ctrl key and calls it.                 *)
(***************************************************************************)
\* LCtrl, LShift, V, A
ComboKeys == {162, 160, 86, 65}

BoundedSeqs(S, n) == UNION {[1..k -> S] : k \in 0..n}

SenderInit ==
    /\ hardware = AllAttached /\ xlat = NoXlat /\ NoOutsiders
    /\ combo_arg \in BoundedSeqs(ComboKeys, MaxComboLen)
    /\ combo_fails = {} /\ combo_res = NoComboRes
    /\ driver = "open" /\ running = TRUE /\ thread = "set"
    /\ keyboards = EnumerateKeyboards
    /\ target_device = 0 /\ mappings = DictSet(EmptyDict, 17, Combo(combo_arg))
    /\ on_key_event = "none" /\ enabled = TRUE
    /\ stop_pc = "idle"
    /\ \/ /\ combo_pc = "call" /\ pc = "wait"
          /\ device = 0 /\ got = FALSE /\ stroke = NoStroke /\ vk_code = 0
          /\ hw_id = <<>> /\ should_remap = FALSE /\ output = NoOutput
       \/ /\ combo_pc = "idle" /\ pc = "act"
          /\ device = 1 /\ got = TRUE
          /\ stroke \in {Stroke(29, 0, 0), Stroke(29, INTERCEPTION_KEY_UP, 0)}
          /\ vk_code = 17 /\ hw_id = DriverGetHardwareId(1)
          /\ should_remap = TRUE /\ output = Combo(combo_arg)
    /\ observed = <<>> /\ sent = <<>> /\ synth = <<>> /\ injected = <<>>
    /\ synth_ok = TRUE /\ branch = "none" /\ cfg_touched = FALSE
    /\ received = (IF got THEN <<device>> ELSE <<>>) /\ trace = TraceOff
    /\ last_call = CallsOff

\* one call send_key_combo(combo_arg) with the injections in fails failing
SendKeyComboCall ==
    /\ combo_pc = "call"
    /\ \E fails \in SUBSET (1..(2 * Len(combo_arg))) :
           /\ combo_fails' = fails
           /\ combo_res' = SendKeyCombo(combo_arg, fails)
    /\ combo_pc' = "done"
    /\ UNCHANGED <<combo_arg, engineVars, configVars, stop_pc, pc, localVars,
                   logVars, cfg_touched, hardware, xlat, orphan, dialog, last_call>>

NextSender == SendKeyComboCall \/ LoopActCombo

SpecSender == SenderInit /\ [][NextSender]_vars

(***************************************************************************)
(* Properties of the dispatch loop, checked under Spec.  They speak of a   *)
(* loop iteration that has run to its end: the thread is back at the loop  *)
(* condition (pc = "top") holding the stroke it received (got).            *)
(***************************************************************************)
IterationDone == pc = "top" /\ got

\* the remap decision of the configuration as it stands, for the stroke held
RemapApplies ==
    /\ enabled
    /\ ResolveVk(stroke) \in DOMAIN mappings
    /\ (target_device = 0 \/ target_device = device)

\* the configuration has been the same since the stroke was received
StableConfig == ~cfg_touched

\* C1: when remap does not apply to a received stroke (enabled is false, or
\* the resolved VK has no entry, or a target device is set and is not the
\* stroke's device), the iteration sends exactly one stroke to the driver,
\* on the stroke's device, and it is the received stroke in every field.
C1_PassThroughUnchanged ==
    IterationDone =>
        /\ (~should_remap) => (branch = "pass" /\ sent = <<Sending(device, stroke)>>)
        /\ (StableConfig /\ ~RemapApplies) =>
               /\ branch = "pass"
               /\ Len(sent) = 1
               /\ sent[1].device = device
               /\ sent[1].stroke.code = stroke.code
               /\ sent[1].stroke.state = stroke.state
               /\ sent[1].stroke.information = stroke.information

\* C1 witness: a key-up stroke with E0 and extraInfo set, of the mapped key,
\* arrived on a device that is not the target and was passed through.
C1_Witness ==
    /\ IterationDone /\ StableConfig
    /\ enabled /\ vk_code \in DOMAIN mappings
    /\ target_device # 0 /\ target_device # device
    /\ stroke.state = INTERCEPTION_KEY_UP + INTERCEPTION_KEY_E0
    /\ stroke.information = MaxInfo
    /\ sent = <<Sending(device, stroke)>>

\* C2: a received stroke takes a remap branch (single key or combo) exactly
\* when enabled is true, its resolved VK is a key of the table and the target
\* is none or the stroke's device; otherwise it takes the pass-through branch.
C2_RemapDecision ==
    (IterationDone /\ StableConfig) =>
        /\ (branch \in {"single", "combo"}) <=> RemapApplies
        /\ (branch = "pass") <=> ~RemapApplies
        /\ RemapApplies => (branch = "combo" <=> mappings[vk_code].is_list)

\* C2 witness: both outcomes on the target device's mapped key, the remap
\* branch here (the pass-through one is C1's witness).
C2_Witness ==
    /\ IterationDone /\ StableConfig /\ RemapApplies
    /\ target_device = device /\ branch = "single"

\* C3: the stroke the single-key branch forwards has the state flags and the
\* extraInfo of the received stroke, and it is the only stroke forwarded.
C3_SingleKeyPreserves ==
    (IterationDone /\ branch = "single") =>
        /\ Len(sent) = 1
        /\ sent[1].device = device
        /\ sent[1].stroke.state = stroke.state
        /\ sent[1].stroke.information = stroke.information
        /\ sent[1].stroke.code = VkToScan(output.vk)
        /\ synth = <<>> /\ injected = <<>>

\* C3 witness: an extended key-up with extraInfo set was remapped to F2.
C3_Witness ==
    /\ IterationDone /\ branch = "single"
    /\ output = Single(113)
    /\ stroke = Stroke(29, INTERCEPTION_KEY_UP + INTERCEPTION_KEY_E0, MaxInfo)
    /\ sent = <<Sending(device, Stroke(60, stroke.state, MaxInfo))>>

\* C4: for a single-key mapping k -> v the forwarded stroke's scan code,
\* resolved with the forwarded stroke's own extended flag, is v.
C4_ForwardedResolvesToOutput ==
    (IterationDone /\ branch = "single") =>
        ResolveVk(sent[1].stroke) = output.vk

\* C5: when a combo mapping applies, a key-down of the mapped input calls
\* the synthesizer exactly once, with the configured list, and a key-up of
\* it does not call the synthesizer; no other branch calls it.
C5_ComboInvokedOnceOnDown ==
    IterationDone =>
        /\ branch = "combo" =>
               /\ output.is_list
               /\ IsKeyUp(stroke) => (synth = <<>> /\ injected = <<>>)
               /\ ~IsKeyUp(stroke) => synth = <<output.keys>>
               /\ StableConfig => output = mappings[vk_code]
        /\ branch # "combo" => (synth = <<>> /\ injected = <<>>)
        /\ (StableConfig /\ RemapApplies /\ mappings[vk_code].is_list) =>
               branch = "combo"

\* C5 witness: a key-down of the mapped key set off LCtrl+LShift+V.
C5_Witness ==
    /\ IterationDone /\ StableConfig /\ branch = "combo"
    /\ ~IsKeyUp(stroke)
    /\ mappings[vk_code] = Combo(<<162, 160, 86>>)
    /\ synth = << <<162, 160, 86>> >>
    /\ Len(injected) = 6

\* C6: while a combo mapping applies to an input key, nothing is sent to
\* the driver for its key-down nor for its key-up: the loop keeps nothing
\* from one stroke to the next, so the key-up is consumed by the same rule.
C6_ComboForwardsNothing ==
    IterationDone =>
        /\ branch = "combo" => sent = <<>>
        /\ (StableConfig /\ RemapApplies /\ mappings[vk_code].is_list) => sent = <<>>

\* C6 witness: the key-up of a combo-mapped key was consumed.
C6_Witness ==
    /\ IterationDone /\ StableConfig /\ RemapApplies
    /\ mappings[vk_code] = Combo(<<162, 160, 86>>)
    /\ IsKeyUp(stroke) /\ branch = "combo" /\ sent = <<>> /\ synth = <<>>

\* C9: a received stroke gets exactly one outbound decision (the original
\* forwarded, one transformed stroke forwarded, or the combo's suppression)
\* before the next receive and before the thread ends.
C9_EveryStrokeDecided ==
    (got /\ pc \in {"top", "done", "dead"}) =>
        /\ branch # "none"
        /\ Len(sent) = (IF branch = "combo" THEN 0 ELSE 1)

\* the loop is past its observer step with the stroke it holds
PastNotify ==
    got /\ pc \in {"chk_enabled", "chk_in", "chk_target", "chk_target2",
                   "lookup", "act", "top", "dead"}

\* C10: with an observer registered, the loop calls it exactly once for
\* the stroke it received, key-down or key-up, whatever the remap decision;
\* with none registered it calls nothing; it never calls twice.
C10_ObserverOncePerStroke ==
    /\ Len(observed) <= 1
    /\ (PastNotify /\ StableConfig) =>
           IF on_key_event = "none" THEN observed = <<>>
           ELSE /\ Len(observed) = 1
                /\ observed[1].cb = on_key_event
                /\ observed[1].event.scan_code = stroke.code
                /\ observed[1].event.is_key_up = IsKeyUp(stroke)
                /\ observed[1].event.device = device

\* C10 witness: a key-up from a device that is not the target, with
\* remapping disabled, was reported to the observer and passed through.
C10_Witness ==
    /\ IterationDone /\ StableConfig
    /\ ~enabled /\ on_key_event = "cb1"
    /\ target_device # 0 /\ target_device # device
    /\ IsKeyUp(stroke) /\ Len(observed) = 1 /\ branch = "pass"

(***************************************************************************)
(* Properties of send_key_combo, checked under SpecSender.                 *)
(***************************************************************************)
\* shift, control, alt (generic, left and right) and the two win keys
C7_Modifiers == {16, 160, 161} \cup {17, 162, 163} \cup {18, 164, 165} \cup {91, 92}

C7_IsMod(vk) == vk \in C7_Modifiers
C7_IsKey(vk) == vk \notin C7_Modifiers

\* the prescribed event sequence of a key list, position by position
C7_Expected(l) ==
    LET mods == SelectSeq(l, C7_IsMod)
        keys == SelectSeq(l, C7_IsKey)
        m == Len(mods)
        r == Len(keys)
    IN  [i \in 1..(2 * Len(l)) |->
            IF i <= m THEN [vk |-> mods[i], key_up |-> FALSE]
            ELSE IF i <= m + 2 * r
                 THEN [vk |-> keys[(i - m + 1) \div 2], key_up |-> (i - m) % 2 = 0]
                 ELSE [vk |-> mods[2 * m + 2 * r + 1 - i], key_up |-> TRUE]]

\* C7: send_key_combo on a non-empty list presses the modifiers in list
\* order, then presses and releases each other key in list order, then
\* releases the modifiers in reverse order; [LCtrl, LShift, V] gives LCtrl
\* down, LShift down, V down, V up, LShift up, LCtrl up.  The modifiers are
\* the fixed set of shift, control, alt and win keys.
C7_ComboSequence ==
    /\ MODIFIER_KEYS = C7_Modifiers
    /\ (combo_pc = "done" /\ combo_arg # <<>>) =>
           combo_res.events = C7_Expected(combo_arg)
    /\ (combo_pc = "done" /\ combo_arg = <<162, 160, 86>>) =>
           combo_res.events = << [vk |-> 162, key_up |-> FALSE],
                                 [vk |-> 160, key_up |-> FALSE],
                                 [vk |-> 86, key_up |-> FALSE],
                                 [vk |-> 86, key_up |-> TRUE],
                                 [vk |-> 160, key_up |-> TRUE],
                                 [vk |-> 162, key_up |-> TRUE] >>
    /\ (branch = "combo" /\ ~IsKeyUp(stroke) /\ output.keys # <<>>) =>
           injected = C7_Expected(output.keys)

\* C7 witness: the call on [LCtrl, LShift, V] has returned its six events.
C7_Witness ==
    /\ combo_pc = "done" /\ combo_arg = <<162, 160, 86>>
    /\ Len(combo_res.events) = 6
    /\ combo_res.events[5] = [vk |-> 160, key_up |-> TRUE]

\* the engine as SenderInit left it, apart from the loop's position
C8_EngineUntouched ==
    /\ driver = "open" /\ running /\ thread = "set" /\ stop_pc = "idle"
    /\ keyboards = EnumerateKeyboards
    /\ target_device = 0 /\ enabled /\ on_key_event = "none"
    /\ mappings = DictSet(EmptyDict, 17, Combo(combo_arg))

\* C8: send_key_combo on a non-empty list of n keys attempts all 2n
\* injections in the prescribed order whichever of them fail, and returns
\* true exactly when none failed; in the loop a failing injection leaves
\* the thread at the loop condition, alive, and the engine as it was.
C8_ComboBestEffort ==
    /\ (combo_pc = "done" /\ combo_arg # <<>>) =>
           /\ Len(combo_res.events) = 2 * Len(combo_arg)
           /\ combo_res.events = C7_Expected(combo_arg)
           /\ combo_res.ok <=> (combo_fails = {})
    /\ C8_EngineUntouched
    /\ pc \in {"wait", "act", "top"}
    /\ (branch = "combo") =>
           /\ pc = "top"
           /\ (~IsKeyUp(stroke) /\ output.keys # <<>>) =>
                  /\ Len(injected) = 2 * Len(output.keys)
                  /\ injected = C7_Expected(output.keys)

\* C8 witness: the loop has called send_key_combo on a three-key list,
\* injections failed (it returned false), all six attempts were made and
\* the thread is back at the loop condition.
C8_Witness ==
    /\ branch = "combo" /\ pc = "top" /\ running
    /\ Len(output.keys) = 3 /\ ~synth_ok /\ Len(injected) = 6

\* C8 witness of the direct call: the first and the last of six fail.
C8_WitnessCall ==
    /\ combo_pc = "done" /\ Len(combo_arg) = 3
    /\ combo_fails = {1, 6} /\ ~combo_res.ok /\ Len(combo_res.events) = 6

(***************************************************************************)
(* Exceptions inside the dispatch loop, checked under Spec.                *)
(***************************************************************************)
\* C11: an error raised by the observer does not propagate into the loop:
\* the step that calls a registered observer never ends the dispatch thread
\* (the iteration goes on to its remap decision).
C11_ObserverErrorIsolated ==
    [][(pc = "cbcall" /\ on_key_event # "none") => pc' # "dead"]_vars

\* C12: changing the table at any point of an iteration is safe: the read
\* of the entry after the membership test never ends the dispatch thread.
C12_TableReadNeverFails ==
    [][(pc = "lookup") => pc' # "dead"]_vars

\* C13: the observer slot can be set to None at any point of an iteration:
\* the call that follows the test of the slot never ends the dispatch
\* thread when the slot has been emptied in between.
C13_EmptiedSlotNeverFails ==
    [][(pc = "cbcall" /\ on_key_event = "none") => pc' # "dead"]_vars

(***************************************************************************)
(* The lifecycle specification: start(), stop() and get_keyboards() (which *)
(* opens the driver without starting) called in any order on an engine     *)
(* configured in any way before its first start, the dispatch thread       *)
(* running in between, every call recorded in last_call.                   *)
(***************************************************************************)
\* the tables of the lifecycle specification: empty, a single key, a combo
LifecycleTables ==
    {m \in MappingTables :
        \A k \in DOMAIN m : m[k] \in {Single(113), Combo(<<162, 160, 86>>)}}

InitLifecycle ==
    /\ driver = "none" /\ running = FALSE /\ thread = "none"
    /\ target_device \in {0, 1}
    /\ mappings \in LifecycleTables
    /\ on_key_event \in Callbacks \cup {"none"}
    /\ enabled \in BOOLEAN
    /\ keyboards = <<>>
    /\ stop_pc = "idle" /\ pc = "none"
    /\ device = 0 /\ got = FALSE /\ stroke = NoStroke /\ vk_code = 0
    /\ hw_id = <<>> /\ should_remap = FALSE /\ output = NoOutput
    /\ observed = <<>> /\ sent = <<>> /\ synth = <<>> /\ injected = <<>>
    /\ synth_ok = TRUE /\ branch = "none" /\ cfg_touched = FALSE
    /\ received = <<>> /\ trace = TraceOff
    /\ OutsideIdle
    /\ last_call = NoCall

NextLifecycle ==
    \/ GetKeyboards
    \/ StartWhileRunning \/ StartRaises \/ Start
    \/ StopWhileIdle \/ StopBegin \/ StopJoin \/ StopDestroy
    \/ Loop

SpecLifecycle == InitLifecycle /\ [][NextLifecycle]_vars

\* the dispatch thread is scheduled: it takes its next step
SpecLifecycleFair == SpecLifecycle /\ WF_vars(Loop)

\* the step is a call returning (or, for stop(), entering its join)
CallStep == last_call' # last_call

(***************************************************************************)
(* start() and stop(), checked under SpecLifecycle.                        *)
(***************************************************************************)
\* C14: start() is idempotent: a start() call on an engine whose run flag
\* is set changes nothing (no thread is spawned, the driver reference, the
\* thread reference and the position of the dispatch thread stay as they
\* are), and whenever start() was the last call to return normally the run
\* flag is set, the driver is open and there is the one thread reference.
C14_StartIdempotent ==
    /\ [][(CallStep /\ last_call'.op = "start" /\ running)
             => UNCHANGED progVars]_vars
    /\ [](last_call.op = "start"
             => (running /\ driver = "open" /\ thread = "set" /\ pc # "none"))

\* C14 witness: start() has been called twice in a row and the dispatch
\* thread spawned by the first call is in its loop.
C14_Witness ==
    /\ last_call.op = "start" /\ last_call.prev = "start"
    /\ running /\ thread = "set" /\ pc = "wait"

\* C15: when stop() called on a running engine has returned, the run flag
\* is clear, the dispatch thread has terminated, and the driver is released
\* and its reference cleared.
C15_StopLeavesIdle ==
    (last_call.op = "stop" /\ last_call.prev = "stop_entered")
        => (~running /\ ~ThreadAlive /\ thread = "none" /\ driver = "none")

\* C16: a stop() call on an engine whose run flag is clear changes nothing:
\* run flag, thread reference, driver reference, keyboards, mappings, target
\* device, enabled flag, observer and dispatch thread are as before.
C16_StopIdleNoOp ==
    [][(CallStep /\ last_call'.op = "stop" /\ ~running /\ stop_pc = "idle")
          => UNCHANGED progVars]_vars

\* C16 witness: stop() has returned on an engine that was not running and
\* whose driver get_keyboards() had opened; the driver is still open.
C16_Witness ==
    /\ last_call.op = "stop" /\ last_call.prev = "get_keyboards"
    /\ ~running /\ driver = "open" /\ keyboards = EnumerateKeyboards

C19_StartFailureLeavesIdle ==
    /\ [][(CallStep /\ last_call'.op = "start_raised")
             => (UNCHANGED progVars
                 /\ ~running' /\ thread' = "none" /\ driver' = "none")]_vars
    /\ []((last_call.op = "start" /\ last_call.prev = "start_raised")
             => (running /\ driver = "open" /\ thread = "set"))

\* C19 witness: start() raised, the next start() succeeded and its thread
\* is in the loop.
C19_Witness ==
    /\ last_call.op = "start" /\ last_call.prev = "start_raised"
    /\ running /\ driver = "open" /\ pc = "wait"

(***************************************************************************)
(* stop() against the dispatch thread, checked under Spec.                 *)
(***************************************************************************)
\* C18: the driver is never released, nor its reference cleared, while the
\* dispatch thread is alive (holding a received stroke it has not yet
\* sent, or about to call the driver).
C18_NoReleaseWhileAlive == (driver = "none") => ~ThreadAlive

(***************************************************************************)
(* The table specification: set_mappings, add_mapping, remove_mapping and  *)
(* clear_mappings called in any order, with any key of TableKeys, any      *)
(* output action and any table over those keys, on an engine that has not  *)
(* been started and holds any table over those keys.                       *)
(***************************************************************************)
\* Ctrl, A
TableKeys == {17, 65}

TablesOver(keys) == UNION {[d -> OutputActions] : d \in SUBSET keys}

\* self._mappings.get(k): the entry of k, or none
DictLookup(m, k) == IF k \in DOMAIN m THEN m[k] ELSE NoOutput

InitTable ==
    /\ driver = "none" /\ running = FALSE /\ thread = "none"
    /\ target_device = 0 /\ on_key_event = "none" /\ enabled = TRUE
    /\ mappings \in TablesOver(TableKeys)
    /\ keyboards = <<>>
    /\ stop_pc = "idle" /\ pc = "none"
    /\ device = 0 /\ got = FALSE /\ stroke = NoStroke /\ vk_code = 0
    /\ hw_id = <<>> /\ should_remap = FALSE /\ output = NoOutput
    /\ observed = <<>> /\ sent = <<>> /\ synth = <<>> /\ injected = <<>>
    /\ synth_ok = TRUE /\ branch = "none" /\ cfg_touched = FALSE
    /\ received = <<>> /\ trace = TraceOff
    /\ OutsideIdle
    /\ last_call = NoCall

NextTable ==
    \/ \E m \in TablesOver(TableKeys) : SetMappings(m)
    \/ \E k \in TableKeys, out \in OutputActions : AddMapping(k, out)
    \/ \E k \in TableKeys : RemoveMapping(k)
    \/ ClearMappings

SpecTable == InitTable /\ [][NextTable]_vars

\* the entries of the keys other than k are the same in m1 and m2
SameElsewhere(m1, m2, k) ==
    \A j \in TableKeys \ {k} :
        /\ (j \in DOMAIN m1) <=> (j \in DOMAIN m2)
        /\ DictLookup(m1, j) = DictLookup(m2, j)

\* C20: after add_mapping(k, v) a lookup of k yields exactly v, after
\* remove_mapping(k) (following an add or not) a lookup of k yields none,
\* and both leave the entries of every other key as they were.
C20_TableRoundTrip ==
    [][CallStep =>
         /\ (last_call'.op = "add_mapping") =>
                /\ last_call'.key \in DOMAIN mappings'
                /\ DictLookup(mappings', last_call'.key) = last_call'.out
                /\ SameElsewhere(mappings, mappings', last_call'.key)
         /\ (last_call'.op = "remove_mapping") =>
                /\ last_call'.key \notin DOMAIN mappings'
                /\ DictLookup(mappings', last_call'.key) = NoOutput
                /\ SameElsewhere(mappings, mappings', last_call'.key)]_vars

\* C20 witness: remove_mapping(Ctrl) right after an add_mapping, the entry
\* of Ctrl gone and the combo entry of A still there.
C20_Witness ==
    /\ last_call.op = "remove_mapping" /\ last_call.prev = "add_mapping"
    /\ last_call.key = 17
    /\ 17 \notin DOMAIN mappings
    /\ DictLookup(mappings, 65) = Combo(<<162, 160, 86>>)

\* what the call just made says of key k: the action it set, none if it
\* removed k, and what the table held before if it does not concern k
LatestFor(k) ==
    CASE last_call'.op = "set_mappings" -> DictLookup(last_call'.table, k)
      [] last_call'.op = "clear_mappings" -> NoOutput
      [] last_call'.op = "add_mapping" /\ last_call'.key = k -> last_call'.out
      [] last_call'.op = "remove_mapping" /\ last_call'.key = k -> NoOutput
      [] OTHER -> DictLookup(mappings, k)

\* C21: after every set_mappings, add_mapping, remove_mapping or
\* clear_mappings the table holds, for each key, exactly the action of the
\* most recent set of that key (none if it was removed or never set): one
\* action per key, a single key or a combo and never both.
C21_LatestSetWins ==
    [][CallStep =>
         \A k \in TableKeys :
             /\ DictLookup(mappings', k) = LatestFor(k)
             /\ (k \in DOMAIN mappings') <=> (LatestFor(k) # NoOutput)
             /\ (k \in DOMAIN mappings') => (mappings'[k] \in OutputActions)]_vars

\* C21 witness: Ctrl was in the table as a single key, and an add_mapping
\* of a combo for Ctrl has replaced it, the entry of A still a single key.
C21_Witness ==
    /\ last_call.op = "add_mapping" /\ last_call.prev = "set_mappings"
    /\ last_call.key = 17 /\ last_call.out = Combo(<<162, 160, 86>>)
    /\ mappings[17] = Combo(<<162, 160, 86>>)
    /\ DictLookup(mappings, 65) = Single(113)

(***************************************************************************)
(* The table's contents, the enabled flag and the device of a send,        *)
(* checked under Spec.                                                     *)
(***************************************************************************)
\* C22: the table never contains an entry whose action is an empty list.
C22_NoEmptyComboEntry ==
    \A k \in DOMAIN mappings : ~(mappings[k].is_list /\ mappings[k].keys = <<>>)

\* a step of the dispatch thread
LoopStep == ThreadAlive /\ pc' # pc

\* C23: a step that changes the enabled flag changes no other field and
\* nothing of the dispatch thread; an iteration that runs to its end with
\* the flag false (and the configuration as it was at the receive) sends
\* the received stroke, unchanged, once on its device and synthesises
\* nothing; and the steps of the dispatch thread taken while the flag is
\* false leave the keyboards snapshot, the table and the target as they are.
C23_DisabledPassesAll ==
    /\ [][(enabled' # enabled) =>
             UNCHANGED <<engineVars, target_device, mappings, on_key_event,
                         stop_pc, pc, localVars, logVars>>]_vars
    /\ []((IterationDone /\ StableConfig /\ ~enabled) =>
             (/\ branch = "pass"
              /\ sent = <<Sending(device, stroke)>>
              /\ synth = <<>> /\ injected = <<>>))
    /\ [][(LoopStep /\ ~enabled) =>
             UNCHANGED <<keyboards, mappings, target_device, enabled>>]_vars

\* C23 witness: with the flag false, a stroke of a mapped key from the
\* target device has been passed through.
C23_Witness ==
    /\ IterationDone /\ StableConfig /\ ~enabled
    /\ vk_code \in DOMAIN mappings /\ target_device = device
    /\ branch = "pass" /\ sent = <<Sending(device, stroke)>>

\* C28: every stroke the current iteration has sent to the driver was sent
\* on the device the wait of that iteration returned.
C28_SentOnReceivingDevice ==
    \A i \in 1..Len(sent) : got /\ sent[i].device = device

\* C28 witness: a stroke received on device 2 while the target device is
\* 1 has been passed through, on device 2.
C28_Witness ==
    /\ IterationDone /\ device = 2 /\ target_device = 1
    /\ branch = "pass" /\ Len(sent) = 1 /\ sent[1].device = 2

(***************************************************************************)
(* The enumeration specification: get_keyboards, set_target_device and     *)
(* set_target_device_by_hardware_id called in any order on an engine that  *)
(* has not been started, keyboards being plugged into and out of the slots *)
(* 1, 2 and 10 in between, two of them possibly with the same hardware id. *)
(***************************************************************************)
EnumSlots == {1, 2, INTERCEPTION_MAX_KEYBOARD}
EnumIds == {<<>>, <<"HID", 1>>, <<"HID", 2>>}

\* the slots of EnumSlots hold any of EnumIds, the others are empty
HardwareChoices ==
    {[d \in 1..INTERCEPTION_MAX_KEYBOARD |-> IF d \in EnumSlots THEN f[d] ELSE <<>>] :
        f \in [EnumSlots -> EnumIds]}

InitEnum ==
    /\ EngineInit /\ SenderIdle /\ xlat = NoXlat /\ NoOutsiders
    /\ hardware \in HardwareChoices
    /\ last_call = NoCall

\* a keyboard is plugged into a slot, or out of it
Replug(slot, id) ==
    /\ CallerFree
    /\ hardware' = [hardware EXCEPT ![slot] = id]
    /\ UNCHANGED <<engineVars, configVars, stop_pc, pc, localVars, logVars,
                   cfg_touched, senderVars, xlat, orphan, dialog, last_call>>

NextEnum ==
    \/ GetKeyboards
    \/ \E caller \in InitDriverCallers : InitDriverFails(caller)
    \/ \E d \in {1, 2} : SetTargetDevice(d)
    \/ \E d \in 1..3 : SetTargetDeviceByHardwareId(<<"HID", d>>)
    \/ \E slot \in EnumSlots, id \in EnumIds : Replug(slot, id)

SpecEnum == InitEnum /\ [][NextEnum]_vars

\* kbs lists, by increasing index and once each, exactly the slots that are
\* keyboards and hold a non-empty hardware id, each with that id
IsEnumeration(kbs) ==
    /\ \A i, j \in 1..Len(kbs) :
           i < j => kbs[i].device_number < kbs[j].device_number
    /\ {kbs[i].device_number : i \in 1..Len(kbs)}
           = {d \in 1..INTERCEPTION_MAX_KEYBOARD :
                  DriverIsKeyboard(d) /\ hardware[d] # <<>>}
    /\ \A i \in 1..Len(kbs) : kbs[i].hardware_id = hardware[kbs[i].device_number]

\* C24: the list get_keyboards returns holds, in increasing index order,
\* exactly the indices in 1..10 that the driver reports as keyboards with a
\* non-empty hardware id, each paired with that id and none twice.
C24_EnumerationExact ==
    [][(CallStep /\ last_call'.op = "get_keyboards")
          => IsEnumeration(keyboards')]_vars

\* C24 witness: slot 1 empty, keyboards in slots 2 and 10: get_keyboards
\* has returned those two, in that order.
C24_Witness ==
    /\ last_call.op = "get_keyboards"
    /\ hardware[1] = <<>> /\ hardware[2] # <<>> /\ hardware[10] # <<>>
    /\ Len(keyboards) = 2
    /\ keyboards[1].device_number = 2 /\ keyboards[2].device_number = 10

\* C25: get_keyboards never ends in an error raised to its caller.
C25_GetKeyboardsNeverRaises == last_call.op # "get_keyboards_raised"

\* C29: set_target_device_by_hardware_id leaves as target the index of the
\* first entry of the keyboards snapshot (the one already held when the
\* driver is open) whose hardware id is the argument, and no target when
\* no entry has that id, whatever the target was.
C29_TargetByHardwareId ==
    [][(CallStep /\ last_call'.op = "set_target_device_by_hardware_id") =>
          LET h == <<"HID", last_call'.key>>
              hits == {i \in 1..Len(keyboards') : keyboards'[i].hardware_id = h}
          IN  /\ (driver = "open") => (keyboards' = keyboards)
              /\ (hits = {}) => (target_device' = 0)
              /\ (hits # {}) =>
                    \E i \in hits :
                        /\ \A j \in hits : i <= j
                        /\ target_device' = keyboards'[i].device_number]_vars

\* C29 witness: two keyboards of the snapshot have the id asked for and the
\* target is the first of them, which has since been unplugged.
C29_Witness ==
    /\ last_call.op = "set_target_device_by_hardware_id" /\ last_call.key = 1
    /\ Len(keyboards) = 2
    /\ keyboards[1].hardware_id = <<"HID", 1>>
    /\ keyboards[2].hardware_id = <<"HID", 1>>
    /\ target_device = keyboards[1].device_number
    /\ hardware[target_device] = <<>>

\* C29 witness of the failed resolution: the target had been set to 2 and
\* no keyboard of the snapshot has the id asked for: the target is unset.
C29_WitnessUnset ==
    /\ last_call.op = "set_target_device_by_hardware_id" /\ last_call.key = 3
    /\ last_call.prev = "set_target_device"
    /\ Len(keyboards) > 0 /\ target_device = 0

(***************************************************************************)
(* The translation specification: the scan-code resolution of the loop on  *)
(* every scan code with every combination of the state flags, followed by  *)
(* _vk_to_scan of the result; and _vk_to_scan of every VK followed by      *)
(* _scan_to_vk (not extended) of the result.                               *)
(***************************************************************************)
XlatFlags == 0..(INTERCEPTION_KEY_UP + INTERCEPTION_KEY_E0 + INTERCEPTION_KEY_E1)

InitTranslate ==
    /\ EngineInit /\ SenderIdle /\ hardware = AllAttached /\ NoOutsiders
    /\ last_call = CallsOff
    /\ \/ \E c \in 0..MaxCode, f \in XlatFlags :
              xlat = [pc |-> "scan", scan |-> c, state |-> f, vk |-> 0, back |-> 0]
       \/ \E v \in 0..MaxCode :
              xlat = [pc |-> "vk", scan |-> 0, state |-> 0, vk |-> v, back |-> 0]

XlatFrame ==
    UNCHANGED <<engineVars, configVars, stop_pc, pc, localVars, logVars,
                cfg_touched, senderVars, hardware, orphan, dialog, last_call>>

\* is_extended and vk_code as the loop computes them from a stroke, then
\* _vk_to_scan of that vk_code
ScanToVkCall ==
    /\ xlat.pc = "scan"
    /\ LET v == ResolveVk(Stroke(xlat.scan, xlat.state, 0))
       IN  xlat' = [xlat EXCEPT !.pc = "scanned", !.vk = v, !.back = VkToScan(v)]
    /\ XlatFrame

\* _vk_to_scan, then _scan_to_vk(extended=False) of the result
VkToScanCall ==
    /\ xlat.pc = "vk"
    /\ LET c == VkToScan(xlat.vk)
       IN  xlat' = [xlat EXCEPT !.pc = "vked", !.scan = c,
                                !.back = ScanToVk(c, FALSE)]
    /\ XlatFrame

NextTranslate == ScanToVkCall \/ VkToScanCall

SpecTranslate == InitTranslate /\ [][NextTranslate]_vars

\* the entries of a table (a sequence of <<key, value>> pairs) for a key
EntriesFor(table, key) == {i \in 1..Len(table) : table[i][1] = key}

\* C26: the resolution of a scan code takes the extended table exactly when
\* the E0 bit of the stroke's state is set and the base table otherwise;
\* the result is the value of the scan code's entry in that table, and the
\* scan code itself when that table has no entry for it.
C26_ResolutionByTable ==
    (xlat.pc = "scanned") =>
        LET e0 == (xlat.state \div INTERCEPTION_KEY_E0) % 2 = 1
            table == IF e0 THEN EXTENDED_MAP ELSE SCAN_TO_VK
            hits == EntriesFor(table, xlat.scan)
        IN  /\ (hits = {}) => (xlat.vk = xlat.scan)
            /\ (hits # {}) => (\A i \in hits : xlat.vk = table[i][2])

\* C26 witness: scan code 0x1E with E0 set is not in the extended table and
\* resolves to 0x1E, not to the 0x41 of the base table.
C26_Witness ==
    /\ xlat.pc = "scanned" /\ xlat.scan = 30
    /\ xlat.state = INTERCEPTION_KEY_E0 + INTERCEPTION_KEY_UP
    /\ xlat.vk = 30

\* C27: for every scan code s of the base table, _vk_to_scan of its
\* (not extended) resolution is s again; and for every VK v of the reverse
\* table, the (not extended) resolution of _vk_to_scan(v) is v again.
C27_TableBidirectional ==
    /\ (/\ xlat.pc = "scanned"
        /\ (xlat.state \div INTERCEPTION_KEY_E0) % 2 = 0
        /\ EntriesFor(SCAN_TO_VK, xlat.scan) # {})
           => (xlat.back = xlat.scan)
    /\ (xlat.pc = "vked" /\ EntriesFor(VK_TO_SCAN, xlat.vk) # {})
           => (xlat.back = xlat.vk)

(***************************************************************************)
(* The observer specification: the dispatch thread of an engine that has   *)
(* just been started with an observer registered, in any configuration.    *)
(* hardware is what was attached to slots 1..NumDevices when start()       *)
(* enumerated the keyboards; strokes arrive from any of those slots, also  *)
(* from one that was filled afterwards and is not in the snapshot.         *)
(***************************************************************************)
ObserveHardware ==
    {[d \in 1..INTERCEPTION_MAX_KEYBOARD |-> IF d \in Devices THEN f[d] ELSE <<>>] :
        f \in [Devices -> EnumIds]}

InitObserve ==
    /\ hardware \in ObserveHardware
    /\ driver = "open" /\ running = TRUE /\ thread = "set"
    /\ keyboards = EnumerateKeyboards
    /\ target_device \in {0, 1}
    /\ mappings \in LifecycleTables
    /\ on_key_event \in Callbacks
    /\ enabled \in BOOLEAN
    /\ stop_pc = "idle" /\ pc = "filter"
    /\ device = 0 /\ got = FALSE /\ stroke = NoStroke /\ vk_code = 0
    /\ hw_id = <<>> /\ should_remap = FALSE /\ output = NoOutput
    /\ observed = <<>> /\ sent = <<>> /\ synth = <<>> /\ injected = <<>>
    /\ synth_ok = TRUE /\ branch = "none" /\ cfg_touched = FALSE
    /\ received = <<>> /\ trace = TraceOff
    /\ SenderIdle /\ xlat = NoXlat /\ NoOutsiders
    /\ last_call = CallsOff

SpecObserve == InitObserve /\ [][Loop]_vars

\* the hardware id the keyboards snapshot records for a device index, the
\* empty string when the index is not in the snapshot
SnapshotId(d) ==
    IF \E i \in 1..Len(keyboards) : keyboards[i].device_number = d
    THEN LET first == CHOOSE i \in 1..Len(keyboards) :
                          /\ keyboards[i].device_number = d
                          /\ \A j \in 1..(i - 1) : keyboards[j].device_number # d
         IN  keyboards[first].hardware_id
    ELSE <<>>

\* C30: every KeyEvent handed to the observer in the current iteration has
\* the stroke's code as scan code, its resolution as VK code, its key-up
\* bit, the device the wait returned, and the hardware id the snapshot
\* records for that device (empty when it is not in the snapshot); and the
\* step that builds and emits it changes neither the stroke nor any field
\* of the engine.
C30_EventProjectsStroke ==
    /\ [](\A i \in 1..Len(observed) :
             observed[i].event =
                 [scan_code |-> stroke.code,
                  vk_code |-> ScanToVk(stroke.code,
                                  (stroke.state \div INTERCEPTION_KEY_E0) % 2 = 1),
                  is_key_up |-> (stroke.state % 2 = 1),
                  device |-> device,
                  hardware_id |-> SnapshotId(device)])
    /\ [][(pc = "cbcall" /\ pc' # pc) =>
             UNCHANGED <<stroke, device, engineVars, configVars>>]_vars

\* C30 witness: a key-up of Right Ctrl from device 2, which is not in the
\* snapshot, has been shown to the observer with an empty hardware id.
C30_Witness ==
    /\ Len(observed) = 1 /\ device = 2
    /\ Len(keyboards) = 1 /\ keyboards[1].device_number = 1
    /\ observed[1].event.scan_code = 29 /\ observed[1].event.vk_code = 17
    /\ observed[1].event.is_key_up
    /\ stroke.state = INTERCEPTION_KEY_UP + INTERCEPTION_KEY_E0
    /\ observed[1].event.hardware_id = <<>>
    /\ pc = "chk_enabled"

(***************************************************************************)
(* The wait and the receive of an iteration, checked under Spec.           *)
(***************************************************************************)
\* the iteration under way has called neither the observer nor the
\* synthesizer and has sent nothing
NothingDone ==
    observed = <<>> /\ synth = <<>> /\ injected = <<>> /\ sent = <<>>

\* C31: in an iteration whose wait timed out (device 0) there is no receive,
\* no observer call, no synthesizer call and no send; in one whose wait
\* signalled a device exactly one receive is made, on that device; and when
\* that receive yields no stroke there is no observer call, no synthesizer
\* call and no send.
C31_WaitThenOneReceive ==
    /\ (device = 0) => (received = <<>> /\ ~got /\ NothingDone)
    /\ (pc = "recv") => (device # 0 /\ received = <<>>)
    /\ (ThreadAlive /\ device # 0 /\ pc # "recv") => received = <<device>>
    /\ Len(received) <= 1
    /\ got => received = <<device>>
    /\ (~got) => NothingDone

\* C31 witness: device 2 was signalled, the receive on it yielded no stroke
\* and the iteration has ended without calling the registered observer.
C31_Witness ==
    /\ pc = "top" /\ running /\ device = 2 /\ ~got
    /\ received = <<2>> /\ on_key_event # "none" /\ NothingDone

(***************************************************************************)
(* The run flag against the dispatch thread, checked under Spec.           *)
(***************************************************************************)
\* C33: whenever the run flag is set (start() having returned) a live
\* dispatch thread is executing the loop.
C33_RunFlagImpliesLiveThread == running => ThreadAlive

(***************************************************************************)
(* The driver context against stop(), checked under SpecLifecycle.         *)
(***************************************************************************)
\* C37: when stop() has returned the engine holds no open driver context,
\* whichever call opened it.
C37_StopReleasesDriver == (last_call.op = "stop") => (driver = "none")

(***************************************************************************)
(* start() and stop() against the configuration, checked under             *)
(* SpecLifecycle.                                                          *)
(***************************************************************************)
\* the calls of start() and stop(), as recorded
StartStopOps == {"start", "start_raised", "stop_entered", "stop"}

\* C38: a start() or stop() call leaves the remap table, the target device,
\* the enabled flag and the observer as they were: the step of such a call
\* changes none of them, nor does any step taken while stop() is under way,
\* so the configuration an engine had before its first start() is the one
\* it has after any sequence of start() and stop() calls.
C38_StartStopKeepConfig ==
    /\ [][(CallStep /\ last_call'.op \in StartStopOps) => UNCHANGED configVars]_vars
    /\ [][(stop_pc # "idle" \/ stop_pc' # "idle") => UNCHANGED configVars]_vars
    /\ [][UNCHANGED configVars]_vars

\* C38 witness: stop() has returned on a running engine whose table, target
\* device, enabled flag and observer had all been set before start(): the
\* driver is released and the four are as they were set.
C38_Witness ==
    /\ last_call.op = "stop" /\ last_call.prev = "stop_entered"
    /\ driver = "none" /\ ~running
    /\ mappings = DictSet(EmptyDict, 17, Single(113))
    /\ target_device = 1 /\ ~enabled /\ on_key_event = "cb1"

(***************************************************************************)
(* The callback specification: the dispatch thread of a started engine     *)
(* with an observer registered, in any configuration; the enabled flag,    *)
(* the table and the target device are changed (by the observer or by the  *)
(* caller thread) while the dispatch thread is inside the observer call,   *)
(* and at no other time.                                                   *)
(***************************************************************************)
\* the dispatch thread is inside `self._on_key_event(event)`
InObserver == pc = "cbcall"

InitCallback ==
    /\ OutsideIdle
    /\ driver = "open" /\ running = TRUE /\ thread = "set"
    /\ keyboards = EnumerateKeyboards
    /\ target_device \in {0, 1}
    /\ mappings \in LifecycleTables
    /\ on_key_event \in Callbacks
    /\ enabled \in BOOLEAN
    /\ stop_pc = "idle" /\ pc = "filter"
    /\ device = 0 /\ got = FALSE /\ stroke = NoStroke /\ vk_code = 0
    /\ hw_id = <<>> /\ should_remap = FALSE /\ output = NoOutput
    /\ observed = <<>> /\ sent = <<>> /\ synth = <<>> /\ injected = <<>>
    /\ synth_ok = TRUE /\ branch = "none" /\ cfg_touched = FALSE
    /\ received = <<>> /\ trace = TraceOff
    /\ last_call = CallsOff

NextCallback ==
    \/ Loop
    \/ InObserver /\ \E b \in BOOLEAN : SetEnabled(b)
    \/ InObserver /\ \E k \in InputVks, out \in {Single(113), Combo(<<162, 160, 86>>)} :
                         AddMapping(k, out)
    \/ InObserver /\ \E k \in InputVks : RemoveMapping(k)
    \/ InObserver /\ \E d \in 0..NumDevices : SetTargetDevice(d)

SpecCallback == InitCallback /\ [][NextCallback]_vars

\* C36: in an iteration the observer is invoked before the remap decision
\* is evaluated and before anything is sent: until the observer call has
\* returned nothing is decided, synthesised or sent; and the enabled flag,
\* the table and the target device as set during the observer call are the
\* ones the iteration applies to the stroke it holds.
C36_ObserverBeforeDecision ==
    /\ (got /\ pc \in {"hwid", "cbtest", "cbcall"}) =>
           (/\ ~should_remap /\ output = NoOutput /\ branch = "none"
            /\ sent = <<>> /\ synth = <<>> /\ injected = <<>>)
    /\ (got /\ pc \in {"hwid", "cbtest"}) => observed = <<>>
    /\ (IterationDone /\ observed # <<>>) =>
           /\ (branch \in {"single", "combo"}) <=> RemapApplies
           /\ (branch = "pass") => sent = <<Sending(device, stroke)>>
           /\ (branch = "single") =>
                  /\ ~mappings[vk_code].is_list
                  /\ sent = <<Sending(device,
                                Stroke(VkToScan(mappings[vk_code].vk),
                                       stroke.state, stroke.information))>>
           /\ (branch = "combo") =>
                  /\ mappings[vk_code].is_list
                  /\ sent = <<>>
                  /\ (~IsKeyUp(stroke)) => synth = <<mappings[vk_code].keys>>

\* C36 witness: during the observer call of a stroke from device 2 the
\* target device was set to 2 (it was none or 1 at start()), and the stroke
\* has been remapped by the single-key entry of its key.
C36_Witness ==
    /\ IterationDone /\ cfg_touched /\ Len(observed) = 1
    /\ device = 2 /\ target_device = 2 /\ enabled
    /\ vk_code \in DOMAIN mappings
    /\ mappings[vk_code] = Single(113) /\ branch = "single"

(***************************************************************************)
(* The restart specification: the lifecycle specification with an observer *)
(* registered, and with start() called also while the dispatch thread of   *)
(* an earlier start() is still alive, stop() having given up its join.     *)
(* start() does not look at that thread: it lives on as the orphan, and    *)
(* the thread start() spawns is the one followed step by step.  The orphan *)
(* is followed iteration by iteration.                                     *)
(***************************************************************************)
\* the orphan is executing _intercept_loop: in an iteration, holding the
\* stroke it received, or at the loop condition
OrphanAlive == orphan \in {"iteration", "top"}

\* KeyInterceptor.start on an engine that is not running, _init_driver
\* succeeding, the thread of the earlier start() still alive
StartOverLiveThread ==
    /\ CallerFree
    /\ ~running
    /\ ThreadAlive
    /\ ~OrphanAlive
    /\ IF driver = "none"
       THEN driver' = "open" /\ keyboards' = EnumerateKeyboards
       ELSE UNCHANGED <<driver, keyboards>>
    /\ running' = TRUE
    /\ thread' = "set"
    /\ orphan' = IF pc = "top" THEN "top" ELSE "iteration"
    /\ pc' = "filter"
    /\ ClearIteration
    /\ UNCHANGED <<configVars, stop_pc, senderVars, hardware, xlat, dialog>>
    /\ Called("start", 0, NoOutput)

OrphanFrame ==
    UNCHANGED <<engineVars, configVars, stop_pc, pc, localVars, logVars,
                cfg_touched, senderVars, hardware, xlat, dialog, last_call>>

\* the orphan ends the iteration it is in: the observer returns and the
\* stroke is sent or consumed, or an exception ends the thread (the
\* observer raising, or self._driver being None at the send)
OrphanFinish ==
    /\ orphan = "iteration"
    /\ \E raises \in BOOLEAN :
           orphan' = IF raises \/ driver = "none" THEN "dead" ELSE "top"
    /\ OrphanFrame

\* the orphan at `while self._running:`: it leaves the loop, or waits and
\* receives the next stroke (self._driver.wait raising when it is None)
OrphanTop ==
    /\ orphan = "top"
    /\ orphan' = IF ~running THEN "done"
                 ELSE IF driver = "none" THEN "dead" ELSE "iteration"
    /\ OrphanFrame

InitRestart ==
    /\ driver = "none" /\ running = FALSE /\ thread = "none"
    /\ target_device \in {0, 1}
    /\ mappings \in LifecycleTables
    /\ on_key_event \in Callbacks
    /\ enabled = TRUE
    /\ keyboards = <<>>
    /\ stop_pc = "idle" /\ pc = "none"
    /\ device = 0 /\ got = FALSE /\ stroke = NoStroke /\ vk_code = 0
    /\ hw_id = <<>> /\ should_remap = FALSE /\ output = NoOutput
    /\ observed = <<>> /\ sent = <<>> /\ synth = <<>> /\ injected = <<>>
    /\ synth_ok = TRUE /\ branch = "none" /\ cfg_touched = FALSE
    /\ received = <<>> /\ trace = TraceOff
    /\ OutsideIdle
    /\ last_call = NoCall

NextRestart ==
    \/ NextLifecycle
    \/ StartOverLiveThread \/ OrphanFinish \/ OrphanTop

SpecRestart == InitRestart /\ [][NextRestart]_vars

\* at most one thread is executing the interception loop
OneDispatchThread == ~(ThreadAlive /\ OrphanAlive)

\* C32: after any sequence of start() and stop() calls, a stop() whose join
\* timed out followed by a start() included, at most one dispatch thread is
\* executing the interception loop, and none is while the engine's driver
\* reference is none.
C32_AtMostOneThread ==
    /\ OneDispatchThread
    /\ (driver = "none") => (~ThreadAlive /\ ~OrphanAlive)

(***************************************************************************)
(* The stream specification: the dispatch thread of a started engine, in   *)
(* any configuration, receiving key-downs and key-ups of Left Ctrl and F1  *)
(* from any device in any order, while the caller thread changes the table *)
(* and the enabled flag at any time.  The strokes received and the         *)
(* outbound actions taken are recorded in the trace, in the order they     *)
(* happen, until it holds MaxTrace events.                                 *)
(***************************************************************************)
StreamOpen == Len(trace.events) < MaxTrace

\* key-down and key-up, not extended, no extraInfo
StreamStrokes ==
    {s \in Strokes : s.state \in {0, INTERCEPTION_KEY_UP} /\ s.information = 0}

InitStream ==
    /\ OutsideIdle
    /\ driver = "open" /\ running = TRUE /\ thread = "set"
    /\ keyboards = EnumerateKeyboards
    /\ target_device \in {0, 1}
    /\ mappings \in LifecycleTables
    /\ on_key_event \in Callbacks \cup {"none"}
    /\ enabled \in BOOLEAN
    /\ stop_pc = "idle" /\ pc = "filter"
    /\ device = 0 /\ got = FALSE /\ stroke = NoStroke /\ vk_code = 0
    /\ hw_id = <<>> /\ should_remap = FALSE /\ output = NoOutput
    /\ observed = <<>> /\ sent = <<>> /\ synth = <<>> /\ injected = <<>>
    /\ synth_ok = TRUE /\ branch = "none" /\ cfg_touched = FALSE
    /\ received = <<>> /\ trace = NoTrace
    /\ last_call = CallsOff

NextStream ==
    /\ StreamOpen
    /\ \/ Loop /\ (got' => stroke' \in StreamStrokes)
       \/ \E out \in {Single(113), Combo(<<162, 160, 86>>)} : AddMapping(17, out)
       \/ RemoveMapping(17)
       \/ \E b \in BOOLEAN : SetEnabled(b)

SpecStream == InitStream /\ [][NextStream]_vars

(***************************************************************************)
(* Press and release, and the order of the outbound actions, checked       *)
(* under SpecStream.                                                       *)
(***************************************************************************)
\* the i-th event of the trace
Ev(i) == trace.events[i]

\* events i and i + 2 are the receives of a key-down and of the key-up that
\* follows it, of the same key on the same device, and the event after the
\* key-up is recorded
PressAndRelease(i) ==
    /\ i + 3 <= Len(trace.events)
    /\ Ev(i).kind = "recv" /\ ~IsKeyUp(Ev(i).stroke)
    /\ Ev(i + 2).kind = "recv" /\ IsKeyUp(Ev(i + 2).stroke)
    /\ Ev(i + 2).device = Ev(i).device
    /\ Ev(i + 2).stroke.code = Ev(i).stroke.code

\* C34: whatever changes of the enabled flag and of the table occur between
\* the key-down and the key-up of a physical key press, a key-up with scan
\* code c is forwarded only if the key-down was forwarded with scan code c,
\* and a forwarded key-down is followed by a forwarded key-up of the same
\* scan code: no orphan key-up, no output key left down.
C34_PressReleaseConsistent ==
    \A i \in 1..Len(trace.events) :
        PressAndRelease(i) =>
            IF Ev(i + 1).kind = "send"
            THEN /\ Ev(i + 3).kind = "send"
                 /\ Ev(i + 3).stroke.code = Ev(i + 1).stroke.code
            ELSE Ev(i + 3).kind # "send"

\* the outbound actions a stroke can get: forwarded as it is, forwarded with
\* the scan code of a single-key output and its own state and extraInfo, or
\* (a key-down) replaced by a combo
IsOutboundOf(out, in) ==
    /\ out.device = in.device
    /\ \/ out.kind = "send" /\ out.stroke = in.stroke
       \/ /\ out.kind = "send"
          /\ out.stroke.state = in.stroke.state
          /\ out.stroke.information = in.stroke.information
          /\ \E a \in OutputActions :
                 ~a.is_list /\ out.stroke.code = VkToScan(a.vk)
       \/ out.kind = "combo" /\ ~IsKeyUp(in.stroke)

\* C35: the outbound action of a stroke is taken before the next stroke is
\* received: every send and every combo synthesis directly follows the
\* receive of its stroke, at most one per received stroke, so the strokes
\* sent are the strokes received, in their order, the suppressed ones left
\* out and the single-key ones rewritten, none moved and none sent twice;
\* and a stroke held by the thread is the last one received, with nothing
\* done for it yet.
C35_OutboundInInputOrder ==
    /\ \A i \in 1..Len(trace.events) :
           (Ev(i).kind # "recv") =>
               /\ i > 1
               /\ Ev(i - 1).kind = "recv"
               /\ IsOutboundOf(Ev(i), Ev(i - 1))
    /\ (got /\ branch = "none" /\ trace.events # <<>>) =>
           Ev(Len(trace.events)) = RecvEvent(device, stroke)
    /\ (got /\ branch \in {"pass", "single"} /\ Len(sent) = 1) =>
           Ev(Len(trace.events)) = SendEvent(sent[1].device, sent[1].stroke)

\* C35 witness: a key-down of F1 from device 2 was received and passed on,
\* then a key-down of Ctrl from device 1 was received and sent as F2.
C35_Witness ==
    /\ Len(trace.events) = 4
    /\ Ev(1) = RecvEvent(2, Stroke(59, 0, 0))
    /\ Ev(2) = SendEvent(2, Stroke(59, 0, 0))
    /\ Ev(3) = RecvEvent(1, Stroke(29, 0, 0))
    /\ Ev(4) = SendEvent(1, Stroke(60, 0, 0))

(***************************************************************************)
(* gui/capture_dialog.py and gui/detect_dialog.py.  The dialogs are modal: *)
(* one is open at a time and the main window makes no call while it is.    *)
(* The engine has been started (by the main window) and its dispatch       *)
(* thread runs; the key-down events it hands to the dialog's callback are  *)
(* handled on the GUI thread, as are the buttons.  The main window opens   *)
(* the capture dialog only with a target device selected.                  *)
(***************************************************************************)
\* the bound method self._on_key_event of a dialog, as an observer
DialogCallback(kind) == IF kind = "capture" THEN "capture_cb" ELSE "detect_cb"

\* VK_CODES['VOLUME_UP'], the special key of the model's buttons
VK_VOLUME_UP == 175

DialogFrame ==
    UNCHANGED <<engineVars, target_device, mappings, stop_pc, pc, localVars,
                logVars, senderVars, hardware, xlat, orphan, last_call>>

\* the handlers that leave the engine alone
DialogOnly == DialogFrame /\ UNCHANGED <<enabled, on_key_event, cfg_touched>>

\* CaptureDialog.__init__, with _setup_ui and _start_phase1
CaptureDialogInit ==
    /\ CallerFree
    /\ dialog.pc # "open"
    /\ dialog' = [kind |-> "capture", pc |-> "open", phase |-> 0, input_vk |-> 0,
                  output_keys |-> <<>>, detected_device |-> 0,
                  target_device |-> target_device, confirm |-> FALSE,
                  prev_callback |-> on_key_event, prev_enabled |-> enabled,
                  ended_by |-> "none"]
    /\ enabled' = FALSE
    /\ on_key_event' = DialogCallback("capture")
    /\ DialogFrame /\ Touch

\* DetectDeviceDialog.__init__, with _setup_ui and _start_detection
DetectDialogInit ==
    /\ CallerFree
    /\ dialog.pc # "open"
    /\ dialog' = [kind |-> "detect", pc |-> "open", phase |-> 0, input_vk |-> 0,
                  output_keys |-> <<>>, detected_device |-> 0,
                  target_device |-> 0, confirm |-> FALSE,
                  prev_callback |-> on_key_event, prev_enabled |-> enabled,
                  ended_by |-> "none"]
    /\ enabled' = FALSE
    /\ on_key_event' = DialogCallback("detect")
    /\ DialogFrame /\ Touch

\* the dispatch thread has handed a key-down to the callback of the open
\* dialog, which has emitted it to the GUI thread
EmittedTo(kind) ==
    /\ dialog.pc = "open" /\ dialog.kind = kind
    /\ observed # <<>>
    /\ observed[Len(observed)].cb = DialogCallback(kind)
    /\ ~observed[Len(observed)].event.is_key_up

\* list.append unless the key is in the list already
AppendNew(keys, vk) ==
    IF \E i \in 1..Len(keys) : keys[i] = vk THEN keys ELSE Append(keys, vk)

\* CaptureDialog._handle_key_event
CaptureHandleKeyEvent ==
    /\ EmittedTo("capture")
    /\ LET event == observed[Len(observed)].event
       IN  IF dialog.phase = 0
           THEN IF dialog.target_device # 0 /\ event.device # dialog.target_device
                THEN UNCHANGED dialog
                ELSE dialog' = [dialog EXCEPT !.input_vk = event.vk_code,
                                              !.phase = 1, !.output_keys = <<>>]
           ELSE dialog' = [dialog EXCEPT
                              !.output_keys = AppendNew(@, event.vk_code),
                              !.confirm = TRUE]
    /\ DialogOnly

\* CaptureDialog._add_special_key, from a special-key button (enabled by
\* _start_phase2)
CaptureAddSpecialKey ==
    /\ dialog.pc = "open" /\ dialog.kind = "capture"
    /\ dialog.phase = 1
    /\ dialog' = [dialog EXCEPT !.output_keys = AppendNew(@, VK_VOLUME_UP),
                                !.confirm = TRUE]
    /\ DialogOnly

\* CaptureDialog._add_more_keys, from the button enabled once a key is there
CaptureAddMoreKeys ==
    /\ dialog.pc = "open" /\ dialog.kind = "capture"
    /\ dialog.output_keys # <<>> /\ dialog.confirm
    /\ dialog' = [dialog EXCEPT !.phase = 1, !.confirm = FALSE]
    /\ DialogOnly

\* CaptureDialog._clear_output, with _start_phase2
CaptureClearOutput ==
    /\ dialog.pc = "open" /\ dialog.kind = "capture"
    /\ dialog.output_keys # <<>>
    /\ dialog' = [dialog EXCEPT !.output_keys = <<>>, !.confirm = FALSE,
                                !.phase = 1]
    /\ DialogOnly

\* DetectDeviceDialog._handle_detected_key
DetectHandleKey ==
    /\ EmittedTo("detect")
    /\ dialog' = [dialog EXCEPT
                     !.detected_device = observed[Len(observed)].event.device,
                     !.confirm = TRUE]
    /\ DialogOnly

\* mutant: the observer is put back, the enabled flag is not
RestoreInterceptor_CallbackOnly ==
    /\ on_key_event' = dialog.prev_callback
    /\ UNCHANGED enabled

\* set_key_event_callback(self._prev_callback); set_enabled(self._prev_enabled)
RestoreInterceptor ==
    /\ on_key_event' = dialog.prev_callback
    /\ enabled' = dialog.prev_enabled

\* accept(), from the Confirm / Use button
DialogAccept ==
    /\ dialog.pc = "open" /\ dialog.confirm
    /\ RestoreInterceptor
    /\ dialog' = [dialog EXCEPT !.pc = "ended", !.ended_by = "accept"]
    /\ DialogFrame /\ Touch

\* reject(), from the Cancel button or the Escape key
DialogReject ==
    /\ dialog.pc = "open"
    /\ RestoreInterceptor
    /\ dialog' = [dialog EXCEPT !.pc = "ended", !.ended_by = "reject"]
    /\ DialogFrame /\ Touch

\* closeEvent(), from the window's close button
DialogClose ==
    /\ dialog.pc = "open"
    /\ RestoreInterceptor
    /\ dialog' = [dialog EXCEPT !.pc = "ended", !.ended_by = "close"]
    /\ DialogFrame /\ Touch

InitDialog ==
    /\ SenderIdle /\ hardware = AllAttached /\ xlat = NoXlat /\ NoOutsiders
    /\ driver = "open" /\ running = TRUE /\ thread = "set"
    /\ keyboards = EnumerateKeyboards
    /\ target_device = 1
    /\ mappings \in LifecycleTables \ {EmptyDict}
    /\ on_key_event \in Callbacks \cup {"none"}
    /\ enabled \in BOOLEAN
    /\ stop_pc = "idle" /\ pc = "filter"
    /\ device = 0 /\ got = FALSE /\ stroke = NoStroke /\ vk_code = 0
    /\ hw_id = <<>> /\ should_remap = FALSE /\ output = NoOutput
    /\ observed = <<>> /\ sent = <<>> /\ synth = <<>> /\ injected = <<>>
    /\ synth_ok = TRUE /\ branch = "none" /\ cfg_touched = FALSE
    /\ received = <<>> /\ trace = TraceOff
    /\ last_call = CallsOff

NextDialog ==
    \/ Loop /\ (got' => stroke' \in StreamStrokes)
    \/ CaptureDialogInit \/ DetectDialogInit
    \/ CaptureHandleKeyEvent \/ CaptureAddSpecialKey \/ CaptureAddMoreKeys
    \/ CaptureClearOutput \/ DetectHandleKey
    \/ DialogAccept \/ DialogReject \/ DialogClose

SpecDialog == InitDialog /\ [][NextDialog]_vars

\* C39: a capture or detect dialog brackets the engine state: its
\* construction saves the enabled flag and the observer, clears the flag
\* and installs the dialog's callback; while it is open, whatever key
\* events and button actions occur, the flag is false and the observer is
\* the dialog's callback; and ending it by accept, reject or close puts the
\* flag and the observer back to the values they had at its construction.
C39_DialogBracketsEngine ==
    /\ []((dialog.pc = "open") =>
             (~enabled /\ on_key_event = DialogCallback(dialog.kind)))
    /\ []((dialog.pc = "ended") =>
             (enabled = dialog.prev_enabled /\ on_key_event = dialog.prev_callback))
    /\ [][(dialog.pc # "open" /\ dialog'.pc = "open") =>
             (/\ dialog'.prev_enabled = enabled
              /\ dialog'.prev_callback = on_key_event)]_vars
    /\ [][(dialog.pc = "open" /\ dialog'.pc = "open") =>
             (/\ UNCHANGED <<enabled, on_key_event>>
              /\ dialog'.prev_enabled = dialog.prev_enabled
              /\ dialog'.prev_callback = dialog.prev_callback)]_vars
    /\ [][(dialog.pc = "open" /\ dialog'.pc = "ended") =>
             (/\ enabled' = dialog.prev_enabled
              /\ on_key_event' = dialog.prev_callback)]_vars

\* C39 witness: a capture dialog constructed on an enabled engine with an
\* observer registered took an input key and two output keys and was then
\* closed: the engine is enabled and the observer is the one of before.
C39_Witness ==
    /\ dialog.kind = "capture" /\ dialog.pc = "ended" /\ dialog.ended_by = "close"
    /\ dialog.input_vk = 17 /\ Len(dialog.output_keys) = 2
    /\ dialog.prev_enabled /\ dialog.prev_callback = "cb1"
    /\ enabled /\ on_key_event = "cb1"

====
